---- MODULE Spec2Model ----
(***************************************************************************)
(* A model of the hook dispatcher of NakedSun (nakedsun/hooks.py): the two *)
(* module-level tables _hook_priorities and _hook_table, the operations    *)
(* add, remove and run, and the build_info / parse_info helpers.           *)
(*                                                                         *)
(* A registered callable is a record.  `function` and `wrapped` are what   *)
(* the program holds (the user's function, and whether add() wrapped it in *)
(* an old-style wrapper); `priority` and `stamp` are history fields that   *)
(* remember the priority the callable was registered with and the rank of  *)
(* its registration on its hook, so that orderings can be stated.          *)
(***************************************************************************)
EXTENDS Integers, Sequences, FiniteSets, TLC

\* ------------------------------------------------------------------------
\* Inputs
\* ------------------------------------------------------------------------

\* Hook names used by the callers.
Hooks == {"test_a", "test_b"}

\* The user's handler functions.  `test` is test_basic's handler, `compat`
\* is test_compatibility's handler.
Funcs == {"test", "compat"}

\* inspect.getargspec(function).args of each handler.
Params == [test |-> <<"name">>, compat |-> <<"info">>]

\* Priorities the callers register with (the ordering example uses 0, 5, -1).
Priorities == {-1, 0, 5}

\* The old_style argument of add: None, True or False.
OldStyleFlags == {"None", "True", "False"}

\* Number of add() calls made in one behaviour.
MaxAdds == 3

\* Number of live registrations in the dispatch models.
MaxRunRegs == 2

\* Length of the handler's `values` list in the dispatch models.
MaxValues == 2

\* Length of the tuples given to build_info.
MaxTuple == 3

\* ------------------------------------------------------------------------
\* Python values that travel through run(): strings, tuples of strings and
\* BuildInfoTuples of strings.  `items` holds the string itself for a str.
\* ------------------------------------------------------------------------

Str(s) == [cls |-> "str", items |-> <<s>>]

Tuple(values) ==
    [cls |-> "tuple", items |-> [i \in 1..Len(values) |-> values[i].items[1]]]

\* Python's == on two values: a tuple subclass compares as a tuple.
PyEq(a, b) ==
    IF a.cls \in {"tuple", "BuildInfoTuple"} /\ b.cls \in {"tuple", "BuildInfoTuple"}
    THEN a.items = b.items
    ELSE a = b

\* A build_info that keeps one argument per character of the format string.
build_info_by_format(format, args) ==
    [cls |-> "BuildInfoTuple",
     items |-> SubSeq(args.items, 1, IF Len(format) < Len(args.items)
                                     THEN Len(format) ELSE Len(args.items))]

\* build_info(format, args): BuildInfoTuple(args); the format is ignored.
build_info(format, args) ==
    [cls |-> "BuildInfoTuple", items |-> args.items]

\* parse_info(info): returns its argument.
parse_info(info) == info

\* ------------------------------------------------------------------------
\* Inputs of the auxiliary registry
\* ------------------------------------------------------------------------

\* The classes that derive from AuxiliaryBase.  Account and Obj carry the
\* @auxiliary.register decorator, Char does not.
OwnerClasses == {"Account", "Obj", "Char"}

\* The register calls: the tag as it is written, and the class.
RegisterCalls == {<<"Account", "Account">>, <<"object ", "Obj">>}

\* The owner objects and their classes.
Owners == {"account1", "account2", "obj", "char"}

OwnerClass ==
    [account1 |-> "Account", account2 |-> "Account", obj |-> "Obj", char |-> "Char"]

\* The owner-type tags, as the tables spell them.
Tags == {"account", "object", "room"}

\* The words of the installs_on strings and of the register calls, as they
\* are written between the commas.
Words == {"account", "Account", " object", "object ", " room"}

\* The auxiliary data classes and the attributes each one defines.
AuxClasses == {"DynVarAux", "Counter", "NoStore"}

Attributes ==
    [DynVarAux |-> {"copy", "copyTo", "store"},
     Counter |-> {"copy", "copyTo", "store"},
     NoStore |-> {"copy", "copyTo"}]

\* The names classes are installed under.
AuxNames == {"dyn_vars", "counter"}

\* A name that is not a string.
Number(n) == [cls |-> "int", items |-> <<n>>]

\* How often one owner is initialized.
MaxInits == 1

\* ------------------------------------------------------------------------
\* Inputs of the storage objects: three sets and a list built apart, which
\* the calls then store into one another
\* ------------------------------------------------------------------------

SetObjects == {"g", "p", "s"}

ListObjects == {"l"}

Objects == SetObjects \cup ListObjects

\* The dict of the nested set in the file that g was constructed from.
FileDicts == {"n"}

TreeKeys == {"k", "j"}

MaxList == 1

\* The vector type of the bitvector tests and the Bitvector instances.
VectorNames == {"something_else"}

Instances == {"b", "c"}

\* Depth of the stack of input handlers and number of items queued for
\* output.
MaxHandlers == 2

MaxSent == 3

\* ------------------------------------------------------------------------
\* State
\* ------------------------------------------------------------------------

VARIABLES
    _hook_priorities,   \* hook -> priority -> list of registered callables
    _hook_table,        \* hook -> list of callables in run order
    registrations,      \* history: hook -> number of add() calls on it
    values,             \* the list the `test` handler appends to
    last,               \* the most recent call and what it returned
    _classes,           \* owner-type tag -> auxiliary name -> class
    _types,             \* owner class -> owner-type tag
    _auxiliary,         \* owner -> auxiliary name -> instance
    inits,              \* history: owner -> number of _auxiliary_init calls
    _data,              \* the _data dict of the root StorageSet
    modified,           \* the modified flag of the root StorageSet
    file_keys,          \* history: the keys the last load read, and those deleted since
    parent,             \* storage object -> its parent
    flags,              \* storage object -> its modified flag
    inside,             \* storage object -> its _data dict or its _list
    bitvectors,         \* vector name -> list of the names of its bits
    _vecname,           \* Bitvector instance -> the name of its vector
    _bits,              \* Bitvector instance -> the set of its bits
    _ihs,               \* the stack of input handlers of the Mudsock
    _connection,        \* its connection: "open", "lost" (not connected), "None"
    _out_buffer,        \* the items queued for output
    _scheduled_for_write, \* whether a write is scheduled
    _busted,            \* whether the prompt is to be shown
    callbacks,          \* the _perform_write callbacks the engine holds
    writes,             \* history: the strings handed to connection.write
    sent                \* history: number of items queued so far

vars == <<_hook_priorities, _hook_table, registrations, values, last,
          _classes, _types, _auxiliary, inits, _data, modified, file_keys,
          parent, flags, inside, bitvectors, _vecname, _bits,
          _ihs, _connection, _out_buffer, _scheduled_for_write, _busted,
          callbacks, writes, sent>>

\* The state of the auxiliary registry (nakedsun/auxiliary.py).
registry == <<_classes, _types, _auxiliary, inits>>

\* The state of the storage engine (nakedsun/storage/nakedmud.py).
storage == <<_data, modified, file_keys>>

\* The StorageSet and StorageList objects of the parent chains.
tree == <<parent, flags, inside>>

\* The state of the bitvectors (nakedsun/bitvectors.py).
bitstate == <<bitvectors, _vecname, _bits>>

\* The output side of the Mudsock (nakedsun/mudsock.py).
output == <<_out_buffer, _scheduled_for_write, _busted, callbacks, writes, sent>>

\* The state of the Mudsock.
mudsock == <<_ihs, _connection, output>>

\* The state of the modules that came last.
others == <<bitstate, mudsock>>

\* The state outside the hook dispatcher.
elsewhere == <<registry, storage, tree, others>>

tables == <<_hook_priorities, _hook_table>>

\* The state of the hook dispatcher.
dispatcher == <<_hook_priorities, _hook_table, registrations, values>>

\* A storage object by its name, the wrapper that a get, a read or an
\* iteration on the object `via` makes around the dict or list of another
\* object, and the parent None.
Obj(o) == [of |-> o, via |-> "own"]

Wrapper(o, via) == [of |-> o, via |-> via]

NoParent == [of |-> "None", via |-> "own"]

\* The empty dict.
EmptyDict == [k \in {} |-> 0]

Init ==
    /\ _hook_priorities = EmptyDict
    /\ _hook_table = EmptyDict
    /\ registrations = [h \in Hooks |-> 0]
    /\ values = <<>>
    /\ last = [op |-> "none"]
    /\ _classes = EmptyDict
    /\ _types = EmptyDict
    /\ _auxiliary = [o \in Owners |-> EmptyDict]
    /\ inits = [o \in Owners |-> 0]
    /\ _data = EmptyDict
    /\ modified = FALSE
    /\ file_keys = [from_file |-> FALSE, order |-> <<>>, deleted |-> {}]
    /\ parent = [o \in Objects |-> NoParent]
    /\ flags = [o \in Objects |-> FALSE]
    /\ inside = [o \in Objects \cup FileDicts |->
                     CASE o = "g" -> [key \in {"k"} |-> [t |-> "dict", of |-> "n"]]
                       [] o = "n" -> [key \in {"j"} |-> [t |-> "unicode", of |-> ""]]
                       [] o \in ListObjects -> <<>>
                       [] OTHER -> EmptyDict]
    /\ bitvectors = EmptyDict
    /\ _vecname = [inst \in Instances |-> "None"]
    /\ _bits = [inst \in Instances |-> {}]
    /\ _ihs = <<>>
    /\ _connection = "open"
    /\ _out_buffer = <<>>
    /\ _scheduled_for_write = FALSE
    /\ _busted = FALSE
    /\ callbacks = 0
    /\ writes = <<>>
    /\ sent = 0

\* ------------------------------------------------------------------------
\* Dicts and lists
\* ------------------------------------------------------------------------

\* d[k] = v
DictSet(d, k, v) == [x \in DOMAIN d \cup {k} |-> IF x = k THEN v ELSE d[x]]

\* del d[k]
DictDel(d, k) == [x \in DOMAIN d \ {k} |-> d[x]]

\* The list without its element at index i.
DelAt(list, i) == SubSeq(list, 1, i - 1) \o SubSeq(list, i + 1, Len(list))

Max(S) == CHOOSE x \in S : \A y \in S : x >= y

Min(S) == CHOOSE x \in S : \A y \in S : x <= y

RECURSIVE SortedAscending(_)
SortedAscending(keys) ==
    IF keys = {} THEN <<>>
    ELSE <<Min(keys)>> \o SortedAscending(keys \ {Min(keys)})

\* sorted(keys, reverse=True)
RECURSIVE SortedReverse(_)
SortedReverse(keys) ==
    IF keys = {} THEN <<>>
    ELSE <<Max(keys)>> \o SortedReverse(keys \ {Max(keys)})

\* The orders in which a dict of that key set may be iterated: Python 2
\* leaves the iteration order of a dict arbitrary.
RECURSIVE DictOrders(_)
DictOrders(keys) ==
    IF keys = {} THEN {<<>>}
    ELSE UNION {{<<k>> \o rest : rest \in DictOrders(keys \ {k})} : k \in keys}

\* ------------------------------------------------------------------------
\* add
\* ------------------------------------------------------------------------

\* An inference that looks at the number of parameters only.
InferOldStyleByCount(function) == Len(Params[function]) = 1

\* old_style = len(args) == 1 and args[0] == 'info'
InferOldStyle(function) ==
    Len(Params[function]) = 1 /\ Params[function][1] = "info"

\* The old_style in force after the `if old_style is None` block.
IsOldStyle(function, old_style) ==
    IF old_style = "None" THEN InferOldStyle(function) ELSE old_style = "True"

\* for priority in sorted(keys, reverse=True): table.extend(buckets[priority])
RECURSIVE ExtendAll(_, _)
ExtendAll(order, buckets) ==
    IF order = <<>> THEN <<>>
    ELSE buckets[Head(order)] \o ExtendAll(Tail(order), buckets)

RunOrder(buckets) == ExtendAll(SortedReverse(DOMAIN buckets), buckets)

\* rebuild_hook_table(hook), as a function of the two tables: the new
\* _hook_table.
rebuild_hook_table(hook, priorities, table) ==
    IF hook \notin DOMAIN priorities
    THEN DictDel(table, hook)
    ELSE DictSet(table, hook, RunOrder(priorities[hook]))

\* _hook_priorities after add's setdefault-and-append.
AddToPriorities(priorities, hook, callable, priority) ==
    LET buckets == IF hook \in DOMAIN priorities THEN priorities[hook] ELSE EmptyDict
        bucket == IF priority \in DOMAIN buckets THEN buckets[priority] ELSE <<>>
    IN DictSet(priorities, hook, DictSet(buckets, priority, Append(bucket, callable)))

RECURSIVE SumOver(_, _)
SumOver(counts, keys) ==
    IF keys = {} THEN 0
    ELSE LET k == CHOOSE x \in keys : TRUE IN counts[k] + SumOver(counts, keys \ {k})

\* Number of add() calls made so far.
TotalAdds == SumOver(registrations, Hooks)

Add(hook, function, old_style, priority) ==
    /\ TotalAdds < MaxAdds
    /\ LET callable == [function |-> function,
                        wrapped |-> IsOldStyle(function, old_style),
                        priority |-> priority,
                        stamp |-> registrations[hook] + 1]
           priorities == AddToPriorities(_hook_priorities, hook, callable, priority)
       IN /\ _hook_priorities' = priorities
          /\ _hook_table' = rebuild_hook_table(hook, priorities, _hook_table)
    /\ registrations' = [registrations EXCEPT ![hook] = @ + 1]
    /\ last' = [op |-> "add"]
    /\ UNCHANGED <<values, elsewhere>>

\* ------------------------------------------------------------------------
\* remove
\* ------------------------------------------------------------------------

\* Python's `is` on two registered callables: every wrapper is an object of
\* its own, a function registered as itself is the same object each time.
Is(a, b) ==
    IF a.wrapped \/ b.wrapped
    THEN a.wrapped /\ b.wrapped /\ a.stamp = b.stamp /\ a.function = b.function
    ELSE a.function = b.function

\* A match that forgets the old-style wrappers.
MatchesItself(fn, function) == ~fn.wrapped /\ fn.function = function

\* fn is function or getattr(fn, 'hooked_for', None) is function
Matches(fn, function) ==
    \/ ~fn.wrapped /\ fn.function = function
    \/ fn.wrapped /\ fn.function = function

\* Index of the first callable of the list that matches, 0 when none does.
FirstMatchIn(function_list, function) ==
    LET hits == {i \in 1..Len(function_list) : Matches(function_list[i], function)}
    IN IF hits = {} THEN 0 ELSE Min(hits)

\* A removal that drops every occurrence.
ListRemoveAll(function_list, fn) ==
    SelectSeq(function_list, LAMBDA x : ~Is(x, fn))

\* function_list.remove(fn): drops the first element that is fn.
ListRemove(function_list, fn) ==
    DelAt(function_list, Min({i \in 1..Len(function_list) : Is(function_list[i], fn)}))

\* The priorities whose bucket holds a match.
MatchingBuckets(buckets, function) ==
    {p \in DOMAIN buckets : FirstMatchIn(buckets[p], function) > 0}

\* The first bucket, in the order the dict is iterated, that holds a match.
FirstMatchingBucket(order, buckets, function) ==
    order[Min({i \in 1..Len(order) : order[i] \in MatchingBuckets(buckets, function)})]

Remove(hook, function) ==
    /\ UNCHANGED <<registrations, values, elsewhere>>
    /\ IF hook \notin DOMAIN _hook_priorities
       THEN /\ last' = [op |-> "remove", result |-> FALSE]
            /\ UNCHANGED tables
       ELSE LET buckets == _hook_priorities[hook] IN
            IF MatchingBuckets(buckets, function) = {}
            THEN /\ last' = [op |-> "remove", result |-> FALSE]
                 /\ UNCHANGED tables
            ELSE \E order \in DictOrders(DOMAIN buckets) :
                 LET p == FirstMatchingBucket(order, buckets, function)
                     fn == buckets[p][FirstMatchIn(buckets[p], function)]
                     priorities == DictSet(_hook_priorities, hook,
                                       DictSet(buckets, p, ListRemove(buckets[p], fn)))
                 IN /\ _hook_priorities' = priorities
                    /\ _hook_table' = rebuild_hook_table(hook, priorities, _hook_table)
                    /\ last' = [op |-> "remove", result |-> TRUE]

\* ------------------------------------------------------------------------
\* run
\* ------------------------------------------------------------------------

\* What a handler's body does when it is entered: `pass` returns, `append`
\* is the body of the test handlers (test: values.append(name); compat:
\* name, = parse_info(info); values.append(name)), the others raise.
\* SystemExit stands for SystemExit and its subclasses (mudsys.SystemCopyover),
\* Exception for the subclasses of Exception other than StopIteration,
\* BaseException for what is neither (KeyboardInterrupt, GeneratorExit).
Raises == {"StopIteration", "SystemExit", "Exception", "BaseException"}

Behaviours == {"pass", "append"} \cup Raises

\* Whether a call with these positional and keyword arguments binds the
\* parameters of a function that has no defaults.
Binds(params, positional, keywords) ==
    /\ Len(positional) <= Len(params)
    /\ {kw[1] : kw \in keywords} = {params[i] : i \in (Len(positional) + 1)..Len(params)}
    /\ Cardinality(keywords) = Len(params) - Len(positional)

\* The values the parameters get, in the order of the parameters.
Bound(params, positional, keywords) ==
    [i \in 1..Len(params) |->
        IF i <= Len(positional) THEN positional[i]
        ELSE Str((CHOOSE kw \in keywords : kw[1] = params[i])[2])]

\* A dispatcher that hands every callable the argument tuple itself.
PositionalPacked(callable, args) == <<Tuple(args)>>

\* The positional arguments that reach the user's function: the old-style
\* wrapper calls hooked_for(args), a new-style function is called (*args).
Positional(callable, args) ==
    IF callable.wrapped THEN <<Tuple(args)>> ELSE args

\* A wrapper that hands the keyword arguments on.
KeywordsKept(callable, kwargs) == kwargs

\* The keyword arguments that reach the user's function: the wrapper drops
\* them.
Keywords(callable, kwargs) ==
    IF callable.wrapped THEN {} ELSE kwargs

\* name, = parse_info(info)
Unpacks(info) ==
    parse_info(info).cls \in {"tuple", "BuildInfoTuple"} /\ Len(parse_info(info).items) = 1

\* function(*args, **kwargs) for one registered callable: what its
\* parameters received, what it appended to `values` and what it raised.
Call(callable, args, kwargs, beh) ==
    LET params == Params[callable.function]
        positional == Positional(callable, args)
        keywords == Keywords(callable, kwargs)
        bound == Binds(params, positional, keywords)
        received == IF bound THEN Bound(params, positional, keywords) ELSE <<>>
        body == beh[callable.function]
        unpacked == callable.function # "compat" \/ Unpacks(received[1])
    IN [callable |-> callable,
        entered |-> bound,
        received |-> received,
        appended |->
            IF bound /\ body = "append" /\ unpacked
            THEN IF callable.function = "compat"
                 THEN <<Str(parse_info(received[1]).items[1])>>
                 ELSE <<received[1]>>
            ELSE <<>>,
        raised |->
            IF ~bound THEN "Exception"
            ELSE IF body \in Raises THEN body
            ELSE IF body = "append" /\ ~unpacked THEN "Exception"
            ELSE "none"]

\* An except chain without the StopIteration clause.
OnRaiseNoStop(raised) ==
    CASE raised = "none" -> "next"
      [] raised = "StopIteration" -> "log"
      [] raised = "SystemExit" -> "raise"
      [] raised = "Exception" -> "log"
      [] raised = "BaseException" -> "raise"

\* An except chain whose last clause is a bare `except:` placed first.
OnRaiseCatchAll(raised) ==
    CASE raised = "none" -> "next"
      [] raised = "StopIteration" -> "break"
      [] OTHER -> "log"

\* The try/except of run's loop: what the loop does after the call.
OnRaise(raised) ==
    CASE raised = "none" -> "next"
      [] raised = "StopIteration" -> "break"
      [] raised = "SystemExit" -> "raise"
      [] raised = "Exception" -> "log"
      [] raised = "BaseException" -> "raise"

\* for function in _hook_table[hook]: the calls made from index i on, how
\* the loop ended and how many exceptions it logged.
RECURSIVE Loop(_, _, _, _, _)
Loop(functions, i, args, kwargs, beh) ==
    IF i > Len(functions)
    THEN [calls |-> <<>>, result |-> "returned", logged |-> 0]
    ELSE LET c == Call(functions[i], args, kwargs, beh)
             todo == OnRaise(c.raised)
             rest == Loop(functions, i + 1, args, kwargs, beh)
         IN CASE todo = "break" ->
                     [calls |-> <<c>>, result |-> "returned", logged |-> 0]
              [] todo = "raise" ->
                     [calls |-> <<c>>, result |-> c.raised, logged |-> 0]
              [] todo = "log" ->
                     [calls |-> <<c>> \o rest.calls, result |-> rest.result,
                      logged |-> rest.logged + 1]
              [] OTHER ->
                     [calls |-> <<c>> \o rest.calls, result |-> rest.result,
                      logged |-> rest.logged]

\* isinstance(args[0], BuildInfoTuple)
IsBuildInfo(args) == args # <<>> /\ args[1].cls = "BuildInfoTuple"

\* args = args[0], then spread by the call's *args.
Expanded(args) ==
    IF IsBuildInfo(args)
    THEN [i \in 1..Len(args[1].items) |-> Str(args[1].items[i])]
    ELSE args

RECURSIVE Appended(_)
Appended(calls) ==
    IF calls = <<>> THEN <<>> ELSE Head(calls).appended \o Appended(Tail(calls))

\* Whether the call described by `last` was a run of the hook that a handler
\* stopped.
WasStopped(call, hook) ==
    /\ call.op = "run"
    /\ call.hook = hook
    /\ \E i \in 1..Len(call.calls) : call.calls[i].raised = "StopIteration"

Run(hook, args, kwargs, beh) ==
    /\ UNCHANGED <<tables, registrations, elsewhere>>
    /\ LET outcome ==
               IF hook \notin DOMAIN _hook_table
               THEN [calls |-> <<>>, result |-> "returned", logged |-> 0]
               ELSE IF IsBuildInfo(args) /\ (Len(args) > 1 \/ kwargs # {})
               THEN [calls |-> <<>>, result |-> "ValueError", logged |-> 0]
               ELSE Loop(_hook_table[hook], 1, Expanded(args), kwargs, beh)
       IN /\ values' = values \o Appended(outcome.calls)
          /\ Len(values') <= MaxValues
          /\ last' = [op |-> "run", hook |-> hook, args |-> args, kwargs |-> kwargs,
                      calls |-> outcome.calls, result |-> outcome.result,
                      logged |-> outcome.logged,
                      after_stop |-> WasStopped(last, hook)]

\* ------------------------------------------------------------------------
\* run with handlers that call add and remove
\* ------------------------------------------------------------------------

\* Handlers that return.
Passing == [f \in Funcs |-> "pass"]

\* What the body of a handler does with the hook that is being run: nothing,
\* hooks.add(hook, function, priority=priority), hooks.remove(hook, function).
Leaves == [do |-> "pass", function |-> "none", priority |-> 0]

Adds(function, priority) == [do |-> "add", function |-> function, priority |-> priority]

Removes(function) == [do |-> "remove", function |-> function, priority |-> 0]

\* The tables and the registration counts after an add made by a handler.
Added(hook, function, priority, st) ==
    LET callable == [function |-> function,
                     wrapped |-> IsOldStyle(function, "None"),
                     priority |-> priority,
                     stamp |-> st.regs[hook] + 1]
        priorities == AddToPriorities(st.priorities, hook, callable, priority)
    IN [priorities |-> priorities,
        table |-> rebuild_hook_table(hook, priorities, st.table),
        regs |-> [st.regs EXCEPT ![hook] = @ + 1]]

\* The tables after a remove made by a handler; `order` is the order in
\* which the dict of buckets is iterated.
Removed(hook, function, order, st) ==
    IF hook \notin DOMAIN st.priorities THEN st
    ELSE LET buckets == st.priorities[hook] IN
         IF MatchingBuckets(buckets, function) = {} THEN st
         ELSE LET p == FirstMatchingBucket(
                           SelectSeq(order, LAMBDA x : x \in DOMAIN buckets),
                           buckets, function)
                  fn == buckets[p][FirstMatchIn(buckets[p], function)]
                  priorities == DictSet(st.priorities, hook,
                                    DictSet(buckets, p, ListRemove(buckets[p], fn)))
              IN [priorities |-> priorities,
                  table |-> rebuild_hook_table(hook, priorities, st.table),
                  regs |-> st.regs]

\* The tables after the body of a handler has run.  A body adds as long as
\* the behaviour has adds left.
Effect(hook, body, order, st) ==
    CASE body.do = "add" /\ SumOver(st.regs, Hooks) <= MaxAdds ->
             Added(hook, body.function, body.priority, st)
      [] body.do = "remove" -> Removed(hook, body.function, order, st)
      [] OTHER -> st

\* A loop over the list the table holds at each step, as if the table were
\* rebuilt in place.
IteratedInPlace(functions, table, hook) ==
    IF hook \in DOMAIN table THEN table[hook] ELSE <<>>

\* The list that `for function in _hook_table[hook]` walks: the list object
\* the table held when the loop started.  rebuild_hook_table binds a new
\* list to the hook and fills that one, so the list being walked is the
\* same at every step.
Iterated(functions, table, hook) == functions

\* for function in _hook_table[hook], from index i on, with handlers whose
\* bodies change the tables: the callables called, how the loop ended and
\* the tables afterwards.
RECURSIVE LoopChanging(_, _, _, _, _, _, _)
LoopChanging(hook, functions, i, args, does, order, st) ==
    LET walked == Iterated(functions, st.table, hook) IN
    IF i > Len(walked)
    THEN [calls |-> <<>>, result |-> "returned", st |-> st]
    ELSE LET c == Call(walked[i], args, {}, Passing)
             after == IF c.entered
                      THEN Effect(hook, does[walked[i].function], order, st) ELSE st
             rest == LoopChanging(hook, functions, i + 1, args, does, order, after)
         IN IF OnRaise(c.raised) \in {"next", "log"}
            THEN [calls |-> <<walked[i]>> \o rest.calls, result |-> rest.result,
                  st |-> rest.st]
            ELSE [calls |-> <<walked[i]>>, result |-> c.raised, st |-> after]

\* run(hook, *args) with handlers that call add and remove for the hook.
RunChanging(hook, args, does, order) ==
    /\ LET st == [priorities |-> _hook_priorities, table |-> _hook_table,
                  regs |-> registrations]
           outcome ==
               IF hook \notin DOMAIN _hook_table
               THEN [calls |-> <<>>, result |-> "returned", st |-> st]
               ELSE LoopChanging(hook, _hook_table[hook], 1, args, does, order, st)
       IN /\ SumOver(outcome.st.regs, Hooks) <= MaxAdds
          /\ _hook_priorities' = outcome.st.priorities
          /\ _hook_table' = outcome.st.table
          /\ registrations' = outcome.st.regs
          /\ last' = [op |-> "run_changing", hook |-> hook, does |-> does,
                      calls |-> outcome.calls, result |-> outcome.result]
    /\ UNCHANGED <<values, elsewhere>>

\* Live registrations of a hook.
Live(hook) == IF hook \in DOMAIN _hook_table THEN Len(_hook_table[hook]) ELSE 0

\* The calls of run that the callers make: positional and keyword arguments.
RunCall(args, kwargs) == [args |-> args, kwargs |-> kwargs]

BobbyInfo == build_info("str", Tuple(<<Str("Bobby")>>))

DispatchCalls ==
    {RunCall(<<Str("Bobby")>>, {}),
     RunCall(<<BobbyInfo>>, {}),
     RunCall(<<>>, {<<"name", "Johnny">>})}

InferredCalls ==
    DispatchCalls \cup
    {RunCall(<<Str("Johnny")>>, {}),
     RunCall(<<Str("Bobby"), Str("Johnny")>>, {}),
     RunCall(<<BobbyInfo>>, {<<"name", "Johnny">>})}

\* ------------------------------------------------------------------------
\* Specification of the tables: add and remove on two hooks
\* ------------------------------------------------------------------------

TablePriorities == {0, 5}

TableFlags == {"None", "True"}

NextTables ==
    \/ \E hook \in Hooks, function \in Funcs, old_style \in TableFlags,
          priority \in TablePriorities : Add(hook, function, old_style, priority)
    \/ \E hook \in Hooks, function \in Funcs : Remove(hook, function)

SpecTables == Init /\ [][NextTables]_vars

\* ------------------------------------------------------------------------
\* Specification of the run order: add, remove and run on one hook, every
\* handler returning
\* ------------------------------------------------------------------------

OrderHooks == {"test_a"}

NextOrder ==
    \/ \E hook \in OrderHooks, function \in Funcs, priority \in Priorities :
          Add(hook, function, "None", priority)
    \/ \E hook \in OrderHooks, function \in Funcs : Remove(hook, function)
    \/ \E hook \in OrderHooks : Run(hook, <<Str("Bobby")>>, {}, Passing)

SpecOrder == Init /\ [][NextOrder]_vars

\* ------------------------------------------------------------------------
\* Specification of the dispatch: handlers that return or raise
\* ------------------------------------------------------------------------

Next ==
    \/ \E hook \in OrderHooks, function \in Funcs, priority \in TablePriorities :
          Live(hook) < MaxRunRegs /\ Add(hook, function, "None", priority)
    \/ \E hook \in OrderHooks, call \in DispatchCalls,
          beh \in [Funcs -> {"pass"} \cup Raises] :
          Run(hook, call.args, call.kwargs, beh)

Spec == Init /\ [][Next]_vars

\* ------------------------------------------------------------------------
\* Specification of the re-entrant dispatch: handlers that register and
\* unregister handlers of the hook that is being run
\* ------------------------------------------------------------------------

Bodies ==
    {Leaves} \cup {Adds(f, p) : f \in Funcs, p \in TablePriorities}
             \cup {Removes(f) : f \in Funcs}

\* One handler changes the hook, the other returns.
OneChanges == {[f \in Funcs |-> IF f = g THEN body ELSE Leaves] : g \in Funcs, body \in Bodies}

NextReentrant ==
    \/ \E hook \in OrderHooks, function \in Funcs, priority \in TablePriorities :
          Live(hook) < MaxRunRegs /\ Add(hook, function, "None", priority)
    \/ \E hook \in OrderHooks, does \in OneChanges,
          order \in DictOrders(TablePriorities) :
          RunChanging(hook, <<Str("Bobby")>>, does, order)

SpecReentrant == Init /\ [][NextReentrant]_vars

\* ------------------------------------------------------------------------
\* Specification of the inferred calling convention: every add leaves
\* old_style unset, the handlers are the ones of the tests
\* ------------------------------------------------------------------------

NextInferred ==
    \/ \E hook \in OrderHooks, function \in Funcs, priority \in TablePriorities :
          Live(hook) < MaxRunRegs /\ Add(hook, function, "None", priority)
    \/ \E hook \in OrderHooks, call \in InferredCalls,
          beh \in [Funcs -> {"append", "StopIteration"}] :
          Run(hook, call.args, call.kwargs, beh)

SpecInferred == Init /\ [][NextInferred]_vars

\* ------------------------------------------------------------------------
\* Specification of the packed-argument helpers
\* ------------------------------------------------------------------------

Formats == {"", "str", "str int"}

InfoAtoms == {"some", "list", "of", "5", "things"}

RECURSIVE SeqsUpTo(_, _)
SeqsUpTo(S, n) ==
    IF n = 0 THEN {<<>>}
    ELSE SeqsUpTo(S, n - 1) \cup
         {Append(q, x) : q \in {r \in SeqsUpTo(S, n - 1) : Len(r) = n - 1}, x \in S}

InfoTuples == {[cls |-> "tuple", items |-> q] : q \in SeqsUpTo(InfoAtoms, MaxTuple)}

\* info = build_info(format, args); parsed = parse_info(info)
BuildParse(format, args) ==
    /\ last' = [op |-> "info", format |-> format, args |-> args,
                info |-> build_info(format, args),
                parsed |-> parse_info(build_info(format, args))]
    /\ UNCHANGED <<tables, registrations, values, elsewhere>>

NextInfo == \E format \in Formats, args \in InfoTuples : BuildParse(format, args)

SpecInfo == Init /\ [][NextInfo]_vars

\* ------------------------------------------------------------------------
\* install and register
\* ------------------------------------------------------------------------

\* word.strip().lower()
Normal(word) ==
    CASE word \in {"account", "Account"} -> "account"
      [] word \in {" object", "object "} -> "object"
      [] word = " room" -> "room"

\* hasattr(cls, attr)
hasattr(cls, attr) == attr \in Attributes[cls]

\* isinstance(name, basestring)
IsBasestring(name) == name.cls = "str"

\* A sanity check that looks at the name only.
SanityCheckNameOnly(name, cls) ==
    IF ~IsBasestring(name) THEN "TypeError" ELSE "ok"

\* The sanity check of install: what it raises, if anything.
SanityCheck(name, cls) ==
    IF ~hasattr(cls, "copy") \/ ~hasattr(cls, "copyTo") \/ ~hasattr(cls, "store")
    THEN "TypeError"
    ELSE IF ~IsBasestring(name) THEN "TypeError"
    ELSE "ok"

\* An install that never finds a class to overwrite.
OverwritesNothing(classes, word, name) == FALSE

\* if name in _classes[word]
Overwrites(classes, word, name) == name \in DOMAIN classes[word]

\* The loop of install over the words of installs_on: the table it leaves
\* and the tags it logged a warning for, in order.
RECURSIVE InstallWords(_, _, _, _)
InstallWords(classes, name, cls, words) ==
    IF words = <<>> THEN [classes |-> classes, warned |-> <<>>]
    ELSE LET word == Normal(Head(words))
             entry == IF word \in DOMAIN classes THEN classes
                      ELSE DictSet(classes, word, EmptyDict)
             warns == Overwrites(entry, word, name)
             set == DictSet(entry, word, DictSet(entry[word], name, cls))
             rest == InstallWords(set, name, cls, Tail(words))
         IN [classes |-> rest.classes,
             warned |-> (IF warns THEN <<word>> ELSE <<>>) \o rest.warned]

\* install(name, cls, installs_on); installs_on is given as the list of
\* its words, installs_on.split(",").
Install(name, cls, installs_on) ==
    /\ LET check == SanityCheck(name, cls)
           done == InstallWords(_classes, name.items[1], cls, installs_on)
       IN IF check # "ok"
          THEN /\ UNCHANGED _classes
               /\ last' = [op |-> "install", name |-> name, cls |-> cls,
                           installs_on |-> installs_on, result |-> check,
                           warned |-> <<>>]
          ELSE /\ _classes' = done.classes
               /\ last' = [op |-> "install", name |-> name, cls |-> cls,
                           installs_on |-> installs_on, result |-> "returned",
                           warned |-> done.warned]
    /\ UNCHANGED <<dispatcher, others, storage, tree, _types, _auxiliary, inits>>

\* register(name)(cls)
Register(name, cls) ==
    /\ _types' = DictSet(_types, cls, Normal(name))
    /\ last' = [op |-> "register", name |-> name, cls |-> cls]
    /\ UNCHANGED <<dispatcher, others, storage, tree, _classes, _auxiliary, inits>>

\* ------------------------------------------------------------------------
\* _auxiliary_init and aux
\* ------------------------------------------------------------------------

\* None, as a value that is returned or passed.
None == [cls |-> "NoneType"]

\* The serialized trees an owner is initialized with: none (data=None), a
\* tree with a sub-tree for one name, a tree with sub-trees for both.
NoTree == EmptyDict

Trees == {NoTree, [dyn_vars |-> "vars"], [dyn_vars |-> "vars", counter |-> "n"]}

\* What __new__ and __init__ of an auxiliary class do for one owner: return,
\* raise an exception derived from Exception, or raise one that is not (an
\* instance of an old-style class, a subclass of BaseException).
InitOutcomes == {"ok", "Exception", "BaseException"}

\* isinstance(thing, key): the owner classes do not derive from each other.
isinstance(thing, key) == OwnerClass[thing] = key

\* _determine_class(thing): the tag of the registered class the owner is an
\* instance of, "None" when there is none.
_determine_class(thing) ==
    LET matches == {key \in DOMAIN _types : isinstance(thing, key)}
    IN IF matches = {} THEN "None" ELSE _types[CHOOSE key \in matches : TRUE]

\* An initialization that hands each class the first sub-tree of the data.
key_data_first(data, key) ==
    IF data # NoTree THEN data[CHOOSE k \in DOMAIN data : TRUE] ELSE "None"

\* key_data = data[key] if data and key in data else None
key_data(data, key) ==
    IF data # NoTree /\ key \in DOMAIN data THEN data[key] ELSE "None"

\* An _initialize that stores the instance before it calls __init__.
_initialize_stored_first(owner, cls, data, key, held, beh) ==
    [raised |-> IF beh[cls] = "ok" THEN "none" ELSE beh[cls],
     held |-> DictSet(held, key, [cls |-> cls, data |-> data,
                                  round |-> inits[owner] + 1])]

\* _initialize(owner, cls, data, key) with cls a class: what it raises and
\* the owner's table afterwards.  The instance is stored once __init__ has
\* returned; `round` tells the instances of successive initializations of
\* one owner apart.
_initialize(owner, cls, data, key, held, beh) ==
    IF beh[cls] # "ok"
    THEN [raised |-> beh[cls], held |-> held]
    ELSE [raised |-> "none",
          held |-> DictSet(held, key, [cls |-> cls, data |-> data,
                                       round |-> inits[owner] + 1])]

\* The try/except around _initialize: what the loop does after the call.
OnInitRaise(raised) ==
    CASE raised = "none" -> "next"
      [] raised = "Exception" -> "log"
      [] raised = "BaseException" -> "raise"

\* for key, cls in _classes[my_type].iteritems(): the attempts made from
\* position i of the iteration order on, the owner's table at the end, how
\* the loop ended and how many failures it logged.
RECURSIVE InitLoop(_, _, _, _, _, _, _)
InitLoop(owner, order, i, bindings, held, data, beh) ==
    IF i > Len(order)
    THEN [attempts |-> <<>>, held |-> held, result |-> "returned", logged |-> 0]
    ELSE LET key == order[i]
             cls == bindings[key]
             made == _initialize(owner, cls, key_data(data, key), key, held, beh)
             attempt == [key |-> key, cls |-> cls, data |-> key_data(data, key),
                         raised |-> made.raised]
             todo == OnInitRaise(made.raised)
             rest == InitLoop(owner, order, i + 1, bindings, made.held, data, beh)
         IN CASE todo = "raise" ->
                     [attempts |-> <<attempt>>, held |-> made.held,
                      result |-> made.raised, logged |-> 0]
              [] todo = "log" ->
                     [attempts |-> <<attempt>> \o rest.attempts, held |-> rest.held,
                      result |-> rest.result, logged |-> rest.logged + 1]
              [] OTHER ->
                     [attempts |-> <<attempt>> \o rest.attempts, held |-> rest.held,
                      result |-> rest.result, logged |-> rest.logged]

\* owner._auxiliary_init(data)
AuxiliaryInit(owner, data, beh) ==
    /\ inits[owner] < MaxInits
    /\ inits' = [inits EXCEPT ![owner] = @ + 1]
    /\ LET my_type == _determine_class(owner)
           call == [op |-> "init", owner |-> owner, data |-> data,
                    my_type |-> my_type]
       IN IF my_type = "None"
          THEN /\ UNCHANGED _auxiliary
               /\ last' = call @@ [attempts |-> <<>>, result |-> "returned",
                                   logged |-> 0]
          ELSE IF my_type \notin DOMAIN _classes
          THEN /\ UNCHANGED _auxiliary
               /\ last' = call @@ [attempts |-> <<>>, result |-> "KeyError",
                                   logged |-> 0]
          ELSE \E order \in DictOrders(DOMAIN _classes[my_type]) :
               LET out == InitLoop(owner, order, 1, _classes[my_type],
                                   _auxiliary[owner], data, beh)
               IN /\ _auxiliary' = [_auxiliary EXCEPT ![owner] = out.held]
                  /\ last' = call @@ [attempts |-> out.attempts,
                                      result |-> out.result, logged |-> out.logged]
    /\ UNCHANGED <<dispatcher, others, storage, tree, _classes, _types>>

\* A _get_class that lets a name pass that is not installed.
_get_class_any_name(owner, cls) ==
    IF _determine_class(owner) = "None" THEN "TypeError" ELSE "none"

\* _get_class(owner, cls): what it raises, if anything.
_get_class(owner, cls) ==
    LET owner_type == _determine_class(owner) IN
    IF owner_type = "None" THEN "TypeError"
    ELSE IF owner_type \notin DOMAIN _classes THEN "KeyError"
    ELSE IF cls \notin DOMAIN _classes[owner_type] THEN "KeyError"
    ELSE "none"

\* owner.aux(name)
Aux(owner, name) ==
    /\ LET call == [op |-> "aux", owner |-> owner, name |-> name]
           held == _auxiliary[owner]
       IN IF held = EmptyDict \/ name \notin DOMAIN held
          THEN IF _get_class(owner, name) # "none"
               THEN last' = call @@ [result |-> _get_class(owner, name),
                                     value |-> None]
               ELSE last' = call @@ [result |-> "returned", value |-> None]
          ELSE last' = call @@ [result |-> "returned", value |-> held[name]]
    /\ UNCHANGED <<dispatcher, others, registry, storage, tree>>

\* ------------------------------------------------------------------------
\* Specification of the registry tables: register, install, and owners
\* initialized without data by classes whose initializers return
\* ------------------------------------------------------------------------

\* install(name, cls, installs_on)
InstallCall(name, cls, installs_on) ==
    [name |-> name, cls |-> cls, installs_on |-> installs_on]

\* The install calls: a first binding, a second class for the same name on
\* two tags, another name, a tag no class is registered with, a class
\* without store() and a name that is not a string.  installs_on is
\* "account", "Account, object" or " room".
InstallCalls ==
    {InstallCall(Str("dyn_vars"), "DynVarAux", <<"account">>),
     InstallCall(Str("dyn_vars"), "Counter", <<"Account", " object">>),
     InstallCall(Str("counter"), "Counter", <<"account">>),
     InstallCall(Str("counter"), "Counter", <<" room">>),
     InstallCall(Str("counter"), "NoStore", <<"Account", " object">>),
     InstallCall(Number("5"), "DynVarAux", <<"account">>)}

AllOk == [cls \in AuxClasses |-> "ok"]

\* The owners of this specification: two of one registered class, one of
\* the other.
RegistryOwners == {"account1", "account2", "obj"}

NextRegistry ==
    \/ \E call \in RegisterCalls : Register(call[1], call[2])
    \/ \E call \in InstallCalls : Install(call.name, call.cls, call.installs_on)
    \/ \E owner \in RegistryOwners : AuxiliaryInit(owner, NoTree, AllOk)

SpecRegistry == Init /\ [][NextRegistry]_vars

\* ------------------------------------------------------------------------
\* Specification of the owners: classes installed on the registered tags,
\* owners initialized with or without data by initializers that return or
\* raise, and aux
\* ------------------------------------------------------------------------

OwnerInstallCalls ==
    {InstallCall(Str("dyn_vars"), "DynVarAux", <<"account">>),
     InstallCall(Str("counter"), "Counter", <<"Account", " object">>)}

\* The owners of this specification: one of each class.
SomeOwners == {"account1", "obj", "char"}

\* What the initializers of the installed classes do.
InitBehaviours ==
    {[cls \in AuxClasses |-> IF cls = "NoStore" THEN "ok" ELSE b[cls]] :
        b \in [{"DynVarAux", "Counter"} -> InitOutcomes]}

NextOwner ==
    \/ \E call \in RegisterCalls : Register(call[1], call[2])
    \/ \E call \in OwnerInstallCalls : Install(call.name, call.cls, call.installs_on)
    \/ \E owner \in SomeOwners, data \in Trees, beh \in InitBehaviours :
          AuxiliaryInit(owner, data, beh)
    \/ \E owner \in SomeOwners, name \in AuxNames : Aux(owner, name)

SpecOwner == Init /\ [][NextOwner]_vars

\* ------------------------------------------------------------------------
\* The storage engine (nakedsun/storage/nakedmud.py): text and values
\* ------------------------------------------------------------------------

\* A text is the sequence of its characters.  "é" stands for a character
\* outside ASCII: in a unicode string it is that character, in a byte
\* string its UTF-8 encoding.
Digits == <<"0", "1", "2", "3", "4", "5", "6", "7", "8", "9">>

IsDigitChar(c) == \E i \in 1..10 : Digits[i] = c

Whitespace == {" ", "\n", "\r", "\t"}

NonAscii == {"é"}

\* A byte that no UTF-8 text contains.
Undecodable == {"\\xff"}

\* The characters in the order of their code points, as far as sorted()
\* needs it.
CodePoints ==
    <<"\t", "\n", "\r", " ", ",", "-", ".", "0", "1", "2", "3", "4", "5", "6", "7",
      "8", "9", ":", "<", "=", ">", "S", "a", "b", "c", "d", "e", "n", "o", "s", "t",
      "w", "x", "y", "~", "é", "\\xff">>

CodePoint(c) == CHOOSE i \in 1..Len(CodePoints) : CodePoints[i] = c

\* a < b for two texts, as Python compares strings.
RECURSIVE TextLess(_, _)
TextLess(a, b) ==
    IF a = <<>> THEN b # <<>>
    ELSE IF b = <<>> THEN FALSE
    ELSE IF Head(a) = Head(b) THEN TextLess(Tail(a), Tail(b))
    ELSE CodePoint(Head(a)) < CodePoint(Head(b))

\* The constants of the module.
INDENT_RATE == 2

SET_MARKER == "-"

LIST_MARKER == "="

STRING_MARKER == "~"

TYPELESS_MARKER == " "

\* The two sentinel keys, each written as a text of one symbol.
READ_ORDER_KEY == <<"\\0\\0READORDER\\0\\0">>

LONGEST_KEY == <<"\\0\\0LONGEST\\0\\0">>

IsSentinel(key) == key = READ_ORDER_KEY \/ key = LONGEST_KEY

\* The values a set's _data holds: unicode and byte strings, dicts (nested
\* sets), lists (of the dicts of a StorageList, or of the keys read, under
\* READ_ORDER_KEY), and numbers (under LONGEST_KEY).
Unicode(s) == [t |-> "unicode", s |-> s]

Bytes(s) == [t |-> "str", s |-> s]

Dict(d) == [t |-> "dict", d |-> d]

List(l) == [t |-> "list", l |-> l]

Num(n) == [t |-> "int", n |-> n]

\* The values a caller passes and gets: the above, and booleans, floats,
\* StorageSet and StorageList objects.
Bool(b) == [t |-> "bool", b |-> b]

Float(s) == [t |-> "float", s |-> s]

StorageSet(d) == [t |-> "StorageSet", d |-> d]

StorageList(l) == [t |-> "StorageList", l |-> l]

\* A call that raised.
Raised(exc) == [t |-> "raise", exc |-> exc]

\* unicode(n) for an integer.
RECURSIVE DecimalOf(_)
DecimalOf(n) ==
    IF n < 0 THEN <<"-">> \o DecimalOf(-n)
    ELSE IF n < 10 THEN <<Digits[n + 1]>>
    ELSE DecimalOf(n \div 10) \o <<Digits[(n % 10) + 1]>>

\* int(s) for a text of digits.
RECURSIVE IntOf(_)
IntOf(s) ==
    IF s = <<>> THEN 0
    ELSE 10 * IntOf(SubSeq(s, 1, Len(s) - 1))
         + (CHOOSE d \in 0..9 : Digits[d + 1] = s[Len(s)])

\* s.isdigit()
isdigit(s) == s # <<>> /\ \A i \in 1..Len(s) : IsDigitChar(s[i])

\* s.replace('.', '')
RECURSIVE WithoutDots(_)
WithoutDots(s) ==
    IF s = <<>> THEN <<>>
    ELSE IF Head(s) = "." THEN WithoutDots(Tail(s))
    ELSE <<Head(s)>> \o WithoutDots(Tail(s))

\* Whether unicode(val) decodes a byte string: the default codec is ASCII.
IsAscii(s) == \A i \in 1..Len(s) : s[i] \notin NonAscii \cup Undecodable

\* Whether data.decode(ENCODING) decodes a byte string: the codec is UTF-8.
IsUtf8(s) == \A i \in 1..Len(s) : s[i] \notin Undecodable

\* ------------------------------------------------------------------------
\* Generic set, get and delete
\* ------------------------------------------------------------------------

\* What __setitem__ stores for a value, or the exception it raises.
Stored(val) ==
    CASE val.t = "StorageList" -> List(val.l)
      [] val.t = "StorageSet" -> Dict(val.d)
      [] val.t = "bool" -> Unicode(IF val.b THEN <<"y", "e", "s">> ELSE <<"n", "o">>)
      [] val.t = "int" -> Unicode(DecimalOf(val.n))
      [] val.t = "float" -> Unicode(val.s)
      [] val.t = "str" -> IF IsAscii(val.s) THEN Unicode(val.s) ELSE val
      [] val.t = "unicode" -> val
      [] OTHER -> Raised("TypeError")

\* A __setitem__ without the check of the sentinel keys.
setitem_unchecked(data, key, val) ==
    IF Stored(val).t = "raise"
    THEN [exc |-> Stored(val).exc, data |-> data]
    ELSE [exc |-> "none", data |-> DictSet(data, key, Stored(val))]

\* set[key] = val on a set whose _data is `data`: the exception raised, if
\* any, and _data afterwards.
setitem(data, key, val) ==
    IF key = READ_ORDER_KEY \/ key = LONGEST_KEY
    THEN [exc |-> "KeyError", data |-> data]
    ELSE IF Stored(val).t = "raise"
    THEN [exc |-> Stored(val).exc, data |-> data]
    ELSE [exc |-> "none", data |-> DictSet(data, key, Stored(val))]

\* Number of dots of a text.
Dots(s) == Len(s) - Len(WithoutDots(s))

\* set[key]: the value returned, or the exception raised.
getitem(data, key) ==
    IF key = READ_ORDER_KEY \/ key = LONGEST_KEY THEN Raised("KeyError")
    ELSE IF key \notin DOMAIN data THEN Raised("KeyError")
    ELSE LET val == data[key] IN
         CASE val.t = "list" -> StorageList(val.l)
           [] val.t = "dict" -> StorageSet(val.d)
           [] val.t = "str" -> val
           \* val.isdigit() on a number or on a StorageSet object
           [] val.t \in {"int", "StorageSet"} -> Raised("AttributeError")
           [] val.s = <<"y", "e", "s">> -> Bool(TRUE)
           [] val.s = <<"n", "o">> -> Bool(FALSE)
           [] isdigit(val.s) -> Num(IntOf(val.s))
           [] isdigit(WithoutDots(val.s)) ->
                 IF Dots(val.s) > 1 THEN Raised("ValueError") ELSE Float(val.s)
           [] OTHER -> val

\* list.remove(x): the list without the first occurrence of x.
RECURSIVE RemoveFirst(_, _)
RemoveFirst(list, x) ==
    IF list = <<>> THEN <<>>
    ELSE IF Head(list) = x THEN Tail(list)
    ELSE <<Head(list)>> \o RemoveFirst(Tail(list), x)

InList(list, x) == \E i \in 1..Len(list) : list[i] = x

\* del set[key]: the exception raised, if any, and _data afterwards.  The
\* key leaves the read order before the dict is asked for it.
delitem(data, key) ==
    IF key = READ_ORDER_KEY \/ key = LONGEST_KEY
    THEN [exc |-> "KeyError", data |-> data]
    ELSE LET unlisted ==
                 IF READ_ORDER_KEY \in DOMAIN data /\ InList(data[READ_ORDER_KEY].l, key)
                 THEN DictSet(data, READ_ORDER_KEY,
                              List(RemoveFirst(data[READ_ORDER_KEY].l, key)))
                 ELSE data
         IN IF key \notin DOMAIN data
            THEN [exc |-> "KeyError", data |-> unlisted]
            ELSE [exc |-> "none", data |-> DictDel(unlisted, key)]

\* ------------------------------------------------------------------------
\* write
\* ------------------------------------------------------------------------

\* " " * n
Spaces(n) == [i \in 1..n |-> " "]

\* "%-Ns" % key: the key, padded on the right to the width.
LeftJustified(key, width) ==
    IF Len(key) >= width THEN key ELSE key \o Spaces(width - Len(key))

\* data.split('\n')
RECURSIVE SplitLines(_)
SplitLines(s) ==
    IF \A i \in 1..Len(s) : s[i] # "\n" THEN <<s>>
    ELSE LET i == Min({j \in 1..Len(s) : s[j] = "\n"})
         IN <<SubSeq(s, 1, i - 1)>> \o SplitLines(SubSeq(s, i + 1, Len(s)))

\* _write_string(file, indentation, data): the lines written, without
\* their line ends.
_write_string(indentation, data) ==
    LET lines == SplitLines(data)
    IN [i \in 1..Len(lines) |-> Spaces(indentation) \o lines[i]]

\* sorted(keys)
RECURSIVE Sorted(_)
Sorted(keys) ==
    IF keys = {} THEN <<>>
    ELSE LET least == CHOOSE k \in keys : \A other \in keys \ {k} : TextLess(k, other)
         IN <<least>> \o Sorted(keys \ {least})

\* The keys of `keys` that the list lacks, in the order `iteration` visits
\* them: for key in data: if not key in key_order: key_order.append(key).
RECURSIVE Missing(_, _, _)
Missing(iteration, keys, list) ==
    IF iteration = <<>> THEN <<>>
    ELSE (IF Head(iteration) \in keys /\ ~InList(list, Head(iteration))
          THEN <<Head(iteration)>> ELSE <<>>)
         \o Missing(Tail(iteration), keys, list)

\* key in s, for two texts.
IsPartOf(key, s) ==
    \E i \in 1..(Len(s) + 1) :
        i + Len(key) - 1 <= Len(s) /\ SubSeq(s, i, i + Len(key) - 1) = key

\* The marker an entry is written with.
MarkerOf(val) ==
    CASE val.t = "list" -> LIST_MARKER
      [] val.t \in {"unicode", "str"}
         /\ \E i \in 1..Len(val.s) : val.s[i] \in {"\n", "\r"} -> STRING_MARKER
      [] val.t = "dict" -> SET_MARKER
      [] OTHER -> TYPELESS_MARKER

\* str() of a StorageSet object: "<nakedsun.storage.nakedmud.StorageSet
\* object at 0x...>", shortened.
ObjectRepr == <<"<", "S", ">">>

\* The inline data of a typeless entry: the string, encoded, or str() of a
\* number.
InlineOf(val) ==
    CASE val.t = "int" -> DecimalOf(val.n)
      [] val.t = "StorageSet" -> ObjectRepr
      [] OTHER -> val.s

\* _write_set(file, indentation, data): the lines written, the exception
\* raised, if any, and the dict afterwards (writing appends the keys the
\* recorded read order lacks to it).  `iteration` is the order in which the
\* dicts are iterated.
RECURSIVE _write_set(_, _, _)
RECURSIVE WriteEntries(_, _, _, _, _, _)
RECURSIVE WriteList(_, _, _, _)

_write_set(indentation, data, iteration) ==
    LET keys == DOMAIN data \ {READ_ORDER_KEY, LONGEST_KEY}
        cached == IF LONGEST_KEY \in DOMAIN data THEN data[LONGEST_KEY].n ELSE 0
        longest == Max({cached} \cup {Len(key) : key \in keys})
        recorded == data[READ_ORDER_KEY]
        key_order ==
            IF READ_ORDER_KEY \notin DOMAIN data THEN Sorted(DOMAIN data \ {LONGEST_KEY})
            ELSE IF recorded.t = "list"
            THEN recorded.l \o Missing(iteration, keys, recorded.l)
            ELSE [i \in 1..Len(recorded.s) |-> <<recorded.s[i]>>]
        listed ==
            IF READ_ORDER_KEY \in DOMAIN data /\ recorded.t = "list"
            THEN DictSet(data, READ_ORDER_KEY, List(key_order)) ELSE data
        body == WriteEntries(key_order, 1, indentation, longest, listed, iteration)
        failed(exc) == [lines |-> <<>>, data |-> data, exc |-> exc]
    IN \* "%-Ns" with a width that is no number
       IF LONGEST_KEY \in DOMAIN data /\ data[LONGEST_KEY].t # "int"
       THEN failed("TypeError")
       \* `key in key_order` and `for key in key_order` on a number
       ELSE IF READ_ORDER_KEY \in DOMAIN data /\ recorded.t = "int"
       THEN failed("TypeError")
       \* key_order.append(key) on a string, for a key that is no part of it
       ELSE IF /\ READ_ORDER_KEY \in DOMAIN data /\ recorded.t # "list"
               /\ \E key \in keys : ~IsPartOf(key, recorded.s)
       THEN failed("AttributeError")
       ELSE IF body.exc # "none" THEN body
       ELSE [lines |-> body.lines \o <<Spaces(indentation) \o <<SET_MARKER>>>>,
             data |-> body.data, exc |-> "none"]

\* for key in key_order, from position i on.
WriteEntries(key_order, i, indentation, longest, data, iteration) ==
    IF i > Len(key_order) THEN [lines |-> <<>>, data |-> data, exc |-> "none"]
    ELSE IF key_order[i] \notin DOMAIN data
    THEN [lines |-> <<>>, data |-> data, exc |-> "KeyError"]
    ELSE LET key == key_order[i]
             val == data[key]
             dtype == MarkerOf(val)
             line == Spaces(indentation) \o LeftJustified(key, longest) \o <<":">>
                     \o <<dtype>>
                     \o (IF dtype = TYPELESS_MARKER THEN InlineOf(val) ELSE <<>>)
             nested ==
                 CASE dtype = LIST_MARKER ->
                          LET w == WriteList(val.l, 1, indentation + INDENT_RATE, iteration)
                          IN [lines |-> w.lines, val |-> List(w.list), exc |-> w.exc]
                   [] dtype = SET_MARKER ->
                          LET w == _write_set(indentation + INDENT_RATE, val.d, iteration)
                          IN [lines |-> w.lines, val |-> Dict(w.data), exc |-> w.exc]
                   [] dtype = STRING_MARKER ->
                          [lines |-> _write_string(indentation + INDENT_RATE, val.s),
                           val |-> val, exc |-> "none"]
                   [] OTHER -> [lines |-> <<>>, val |-> val, exc |-> "none"]
             written == DictSet(data, key, nested.val)
             rest == WriteEntries(key_order, i + 1, indentation, longest, written, iteration)
         IN IF nested.exc # "none"
            THEN [lines |-> <<line>> \o nested.lines, data |-> written, exc |-> nested.exc]
            ELSE [lines |-> <<line>> \o nested.lines \o rest.lines,
                  data |-> rest.data, exc |-> rest.exc]

\* for set in data[key]: self._write_set(file, indentation, set)
WriteList(list, i, indentation, iteration) ==
    IF i > Len(list) THEN [lines |-> <<>>, list |-> list, exc |-> "none"]
    ELSE LET w == _write_set(indentation, list[i], iteration)
             written == [list EXCEPT ![i] = w.data]
             rest == WriteList(written, i + 1, indentation, iteration)
         IN IF w.exc # "none"
            THEN [lines |-> w.lines, list |-> written, exc |-> w.exc]
            ELSE [lines |-> w.lines \o rest.lines, list |-> rest.list, exc |-> rest.exc]

\* ------------------------------------------------------------------------
\* load
\* ------------------------------------------------------------------------

\* len(line) - len(line.lstrip()) for a line of the file, which ends with
\* its "\n": a line of whitespace only counts its line end too.
Indent(line) ==
    IF \A i \in 1..Len(line) : line[i] \in Whitespace THEN Len(line) + 1
    ELSE Min({i \in 1..Len(line) : line[i] \notin Whitespace}) - 1

\* s.lstrip(), s.strip()
lstrip(s) ==
    IF \A i \in 1..Len(s) : s[i] \in Whitespace THEN <<>>
    ELSE SubSeq(s, Min({i \in 1..Len(s) : s[i] \notin Whitespace}), Len(s))

strip(s) ==
    IF \A i \in 1..Len(s) : s[i] \in Whitespace THEN <<>>
    ELSE SubSeq(s, Min({i \in 1..Len(s) : s[i] \notin Whitespace}),
                   Max({i \in 1..Len(s) : s[i] \notin Whitespace}))

\* line[indentation:]
From(line, indentation) ==
    IF indentation >= Len(line) THEN <<>> ELSE SubSeq(line, indentation + 1, Len(line))

\* data.decode(ENCODING), the bytes kept when they do not decode.
Decoded(s) == IF IsUtf8(s) THEN Unicode(s) ELSE Bytes(s)

\* _read_string(file, indentation): the string and the position after it.
RECURSIVE ReadStringLines(_, _, _)
ReadStringLines(lines, pos, indentation) ==
    IF pos > Len(lines) \/ Indent(lines[pos]) < indentation
    THEN [s |-> <<>>, pos |-> pos]
    ELSE LET rest == ReadStringLines(lines, pos + 1, indentation)
         IN [s |-> From(lines[pos], indentation) \o <<"\n">> \o rest.s, pos |-> rest.pos]

_read_string(lines, pos, indentation) ==
    LET read == ReadStringLines(lines, pos, indentation)
        data == IF read.s # <<>> /\ read.s[Len(read.s)] = "\n"
                THEN SubSeq(read.s, 1, Len(read.s) - 1) ELSE read.s
    IN [val |-> Decoded(data), pos |-> read.pos]

\* _read_set(file, indentation, to) and _read_list(file, indentation, to):
\* what `to` holds afterwards, the position in the file and the exception
\* raised, if any.
RECURSIVE ReadEntries(_, _, _, _, _, _)
RECURSIVE _read_list(_, _, _)

_read_set(lines, pos, indentation) ==
    ReadEntries(lines, pos, indentation, EmptyDict, <<>>, 0)

\* The while loop of _read_set.
ReadEntries(lines, pos, indentation, to, read_order, longest) ==
    LET listed == DictSet(to, READ_ORDER_KEY, List(read_order))
        done == DictSet(listed, LONGEST_KEY, Num(longest))
    IN IF pos > Len(lines) \/ Indent(lines[pos]) # indentation
       THEN [to |-> done, pos |-> pos, exc |-> "none"]
       ELSE LET line == From(lines[pos], indentation) IN
            IF line = <<SET_MARKER>>
            THEN [to |-> done, pos |-> pos + 1, exc |-> "none"]
            ELSE IF \A i \in 1..Len(line) : line[i] # ":"
            THEN [to |-> listed, pos |-> pos + 1, exc |-> "ValueError"]
            ELSE LET colon == Min({i \in 1..Len(line) : line[i] = ":"})
                     padded == SubSeq(line, 1, colon - 1)
                     data == SubSeq(line, colon + 1, Len(line))
                     key == strip(padded)
                     width == Max({longest, Len(lstrip(padded))})
                     order == read_order \o <<key>>
                 IN IF data = <<>>
                    THEN [to |-> listed, pos |-> pos + 1, exc |-> "IndexError"]
                    ELSE LET dtype == Head(data)
                             entry ==
                                 CASE dtype = TYPELESS_MARKER ->
                                          [val |-> Decoded(Tail(data)), pos |-> pos + 1,
                                           exc |-> "none"]
                                   [] dtype = LIST_MARKER ->
                                          LET r == _read_list(lines, pos + 1,
                                                              indentation + INDENT_RATE)
                                          IN [val |-> List(r.list), pos |-> r.pos,
                                              exc |-> r.exc]
                                   [] dtype = STRING_MARKER ->
                                          LET r == _read_string(lines, pos + 1,
                                                                indentation + INDENT_RATE)
                                          IN [val |-> r.val, pos |-> r.pos, exc |-> "none"]
                                   [] dtype = SET_MARKER ->
                                          LET r == _read_set(lines, pos + 1,
                                                             indentation + INDENT_RATE)
                                          IN [val |-> Dict(r.to), pos |-> r.pos,
                                              exc |-> r.exc]
                                   [] OTHER ->
                                          [val |-> Unicode(<<>>), pos |-> pos + 1,
                                           exc |-> "NotImplementedError"]
                             read == DictSet(to, key, entry.val)
                         IN IF entry.exc = "NotImplementedError"
                            THEN [to |-> DictSet(to, READ_ORDER_KEY, List(order)),
                                  pos |-> entry.pos, exc |-> entry.exc]
                            ELSE IF entry.exc # "none"
                            THEN [to |-> DictSet(read, READ_ORDER_KEY, List(order)),
                                  pos |-> entry.pos, exc |-> entry.exc]
                            ELSE ReadEntries(lines, entry.pos, indentation, read,
                                             order, width)

\* The while loop of _read_list.
_read_list(lines, pos, indentation) ==
    IF pos > Len(lines) \/ Indent(lines[pos]) # indentation
    THEN [list |-> <<>>, pos |-> pos, exc |-> "none"]
    ELSE LET set == _read_set(lines, pos, indentation)
             rest == _read_list(lines, set.pos, indentation)
         IN IF set.exc # "none"
            THEN [list |-> <<>>, pos |-> set.pos, exc |-> set.exc]
            ELSE [list |-> <<set.to>> \o rest.list, pos |-> rest.pos, exc |-> rest.exc]

\* ------------------------------------------------------------------------
\* A StorageSet and the calls on it
\* ------------------------------------------------------------------------

\* The _data of the set that the path leads to: root[k1][k2]... of a chain
\* of generic gets, each of which wraps the dict held under the key.
RECURSIVE DataAt(_, _)
DataAt(data, path) ==
    IF path = <<>> THEN data ELSE DataAt(data[Head(path)].d, Tail(path))

\* Whether the chain of gets reaches a nested set.
RECURSIVE Reaches(_, _)
Reaches(data, path) ==
    IF path = <<>> THEN TRUE
    ELSE IF IsSentinel(Head(path)) \/ Head(path) \notin DOMAIN data THEN FALSE
    ELSE IF data[Head(path)].t # "dict" THEN FALSE
    ELSE Reaches(data[Head(path)].d, Tail(path))

\* The root's _data once the set at the path holds `new`: the wrappers
\* share their dicts with the root.
RECURSIVE WithDataAt(_, _, _)
WithDataAt(data, path, new) ==
    IF path = <<>> THEN new
    ELSE DictSet(data, Head(path),
                 Dict(WithDataAt(data[Head(path)].d, Tail(path), new)))

\* root[path...][key] = val.  `flag` is the modified flag of the set the
\* call was made on, which _modified() hands up to the root.
SetItem(path, key, val) ==
    /\ Reaches(_data, path)
    /\ LET call == setitem(DataAt(_data, path), key, val)
       IN /\ _data' = WithDataAt(_data, path, call.data)
          /\ modified' = (modified \/ call.exc = "none")
          /\ last' = [op |-> "set", path |-> path, key |-> key, val |-> val,
                      exc |-> call.exc,
                      flag |-> IF path = <<>> THEN modified' ELSE call.exc = "none"]
    /\ UNCHANGED <<dispatcher, others, registry, tree, file_keys>>

\* root[path...][key]
GetItem(path, key) ==
    /\ Reaches(_data, path)
    /\ LET got == getitem(DataAt(_data, path), key)
       IN last' = [op |-> "get", path |-> path, key |-> key,
                   exc |-> IF got.t = "raise" THEN got.exc ELSE "none",
                   value |-> got,
                   flag |-> IF path = <<>> THEN modified ELSE FALSE]
    /\ UNCHANGED <<dispatcher, others, registry, storage, tree>>

\* del root[path...][key]
DelItem(path, key) ==
    /\ Reaches(_data, path)
    /\ LET call == delitem(DataAt(_data, path), key)
       IN /\ _data' = WithDataAt(_data, path, call.data)
          /\ modified' = (modified \/ call.exc = "none")
          /\ last' = [op |-> "del", path |-> path, key |-> key,
                      exc |-> call.exc,
                      flag |-> IF path = <<>> THEN modified' ELSE call.exc = "none"]
          /\ file_keys' = IF path = <<>> /\ call.exc = "none"
                          THEN [file_keys EXCEPT !.deleted = @ \cup {key}]
                          ELSE file_keys
    /\ UNCHANGED <<dispatcher, others, registry, tree>>

\* root.write(filename); root = StorageSet(filename): the set is written
\* and a fresh set is loaded from the file, which takes its place when the
\* load returns.
WriteLoad(iteration) ==
    /\ LET written == _write_set(0, _data, iteration)
           loaded == IF written.exc = "none"
                     THEN _read_set(written.lines, 1, 0)
                     ELSE [to |-> EmptyDict, pos |-> 1, exc |-> written.exc]
       IN /\ _data' = IF loaded.exc = "none" THEN loaded.to ELSE written.data
          /\ modified' = IF loaded.exc = "none" THEN FALSE ELSE modified
          /\ last' = [op |-> "load", before |-> written.data, lines |-> written.lines,
                      after |-> loaded.to, exc |-> loaded.exc]
          /\ file_keys' = IF loaded.exc = "none"
                          THEN [from_file |-> TRUE,
                                order |-> loaded.to[READ_ORDER_KEY].l, deleted |-> {}]
                          ELSE file_keys
    /\ UNCHANGED <<dispatcher, others, registry, tree>>

\* root.load(filename): the file is read into the dict the set has.
Load(file) ==
    /\ LET read == ReadEntries(file, 1, 0, _data, <<>>, 0)
       IN /\ _data' = read.to
          /\ file_keys' = IF read.exc = "none"
                          THEN [from_file |-> TRUE,
                                order |-> read.to[READ_ORDER_KEY].l, deleted |-> {}]
                          ELSE [from_file |-> FALSE, order |-> <<>>, deleted |-> {}]
          /\ last' = [op |-> "loadfile", file |-> file, before |-> _data,
                      exc |-> read.exc, pos |-> read.pos]
    /\ UNCHANGED <<dispatcher, others, registry, tree, modified>>

\* root.keys(), list(root): the keys that __iter__ yields, in the order in
\* which the dict is iterated.
Keys(iteration) ==
    /\ last' = [op |-> "keys",
                result |-> SelectSeq(iteration, LAMBDA key :
                               key \in DOMAIN _data /\ ~IsSentinel(key))]
    /\ UNCHANGED <<dispatcher, others, registry, storage, tree>>

\* root.contains(key), key in root
Contains(key) ==
    /\ last' = [op |-> "contains", key |-> key, result |-> key \in DOMAIN _data]
    /\ UNCHANGED <<dispatcher, others, registry, storage, tree>>

\* root.readString(key)
ReadString(key) ==
    /\ last' = [op |-> "readString", key |-> key, exc |-> "none",
                value |-> IF key \notin DOMAIN _data THEN Unicode(<<>>) ELSE _data[key]]
    /\ UNCHANGED <<dispatcher, others, registry, storage, tree>>

\* root.readInt(key): int() of what is stored.
ReadInt(key) ==
    /\ LET val == _data[key]
           got == CASE key \notin DOMAIN _data -> Num(0)
                    [] val.t = "int" -> val
                    [] val.t \in {"list", "dict"} -> Raised("TypeError")
                    [] isdigit(strip(val.s)) -> Num(IntOf(strip(val.s)))
                    [] OTHER -> Raised("ValueError")
       IN last' = [op |-> "readInt", key |-> key,
                   exc |-> IF got.t = "raise" THEN got.exc ELSE "none", value |-> got]
    /\ UNCHANGED <<dispatcher, others, registry, storage, tree>>

\* root.readList(key): a StorageList around what is stored.
ReadList(key) ==
    /\ last' = [op |-> "readList", key |-> key, exc |-> "none",
                value |-> [t |-> "StorageList",
                           list |-> IF key \notin DOMAIN _data THEN List(<<>>)
                                    ELSE _data[key]]]
    /\ UNCHANGED <<dispatcher, others, registry, storage, tree>>

\* root.storeString(key, val) for a unicode string
StoreString(key, val) ==
    /\ _data' = DictSet(_data, key, val)
    /\ modified' = TRUE
    /\ last' = [op |-> "storeString", key |-> key, val |-> val, exc |-> "none"]
    /\ UNCHANGED <<dispatcher, others, registry, tree, file_keys>>

\* root.storeInt(key, val) for an integer: the number itself is stored.
StoreInt(key, val) ==
    /\ _data' = DictSet(_data, key, val)
    /\ modified' = TRUE
    /\ last' = [op |-> "storeInt", key |-> key, val |-> val, exc |-> "none"]
    /\ UNCHANGED <<dispatcher, others, registry, tree, file_keys>>

\* root.storeBool(key, val)
StoreBool(key, val) ==
    /\ _data' = DictSet(_data, key,
                        Unicode(IF val.b THEN <<"y", "e", "s">> ELSE <<"n", "o">>))
    /\ modified' = TRUE
    /\ last' = [op |-> "storeBool", key |-> key, val |-> val, exc |-> "none"]
    /\ UNCHANGED <<dispatcher, others, registry, tree, file_keys>>

\* root.storeList(key, val) for a StorageList: its list is stored.
StoreList(key, val) ==
    /\ _data' = DictSet(_data, key, List(val.l))
    /\ modified' = TRUE
    /\ last' = [op |-> "storeList", key |-> key, val |-> val, exc |-> "none"]
    /\ UNCHANGED <<dispatcher, others, registry, tree, file_keys>>

\* root.storeSet(key, val) for a StorageSet: the object itself is stored.
StoreSet(key, val) ==
    /\ _data' = DictSet(_data, key, val)
    /\ modified' = TRUE
    /\ last' = [op |-> "storeSet", key |-> key, val |-> val, exc |-> "none"]
    /\ UNCHANGED <<dispatcher, others, registry, tree, file_keys>>

\* ------------------------------------------------------------------------
\* Specification of the storage engine: a set built with generic sets and
\* deletes, one level of nesting, written and loaded again
\* ------------------------------------------------------------------------

KeyA == <<"a">>

KeyBB == <<"b", "b">>

StorageKeys == {KeyA, KeyBB}

\* The sets the calls are made on: the root and the set under "bb".
Paths == {<<>>, <<KeyBB>>}

\* Texts: "x", "x\ny" and the UTF-8 bytes of "é".
TextX == <<"x">>

TextLines == <<"x", "\n", "y">>

TextAccent == <<"é">>

\* The values stored in a nested set, and in the root.
NestedValues == {Unicode(TextX), Num(42)}

RootValues ==
    NestedValues
    \cup {Bool(TRUE), Unicode(TextLines), Bytes(TextAccent),
          StorageSet(EmptyDict),
          StorageList(<<[k \in {KeyA} |-> Unicode(TextX)]>>)}

NextStorage ==
    \/ \E path \in Paths, key \in StorageKeys, val \in RootValues :
          (path # <<>> => val \in NestedValues) /\ SetItem(path, key, val)
    \/ \E iteration \in DictOrders(StorageKeys) : WriteLoad(iteration)

SpecStorage == Init /\ [][NextStorage]_vars

\* ------------------------------------------------------------------------
\* Specification of the sentinel keys: generic set, get and delete with the
\* keys of the data and the two sentinel keys, on the root and on a nested
\* set, before and after a load
\* ------------------------------------------------------------------------

AnyKeys == StorageKeys \cup {READ_ORDER_KEY, LONGEST_KEY}

SentinelValues == {Unicode(TextX), StorageSet(EmptyDict)}

NextSentinel ==
    \/ \E path \in Paths, key \in AnyKeys, val \in SentinelValues :
          (val.t = "StorageSet" => path = <<>> /\ key # KeyA) /\ SetItem(path, key, val)
    \/ \E path \in Paths, key \in AnyKeys : GetItem(path, key)
    \/ \E path \in Paths, key \in AnyKeys : DelItem(path, key)
    \/ \E iteration \in DictOrders(StorageKeys) : WriteLoad(iteration)

SpecSentinel == Init /\ [][NextSentinel]_vars

\* ------------------------------------------------------------------------
\* Parents and modified flags of StorageSets and StorageLists
\* ------------------------------------------------------------------------

\* What a set's dict holds under a key: a text, the dict of a set, the
\* list of a StorageList, or (after storeSet) a StorageSet itself.
Text == [t |-> "unicode", of |-> ""]

Entry(t, o) == [t |-> t, of |-> o]

\* node.parent: a wrapper's parent is the object it was made on.
ParentIn(parents, node) ==
    IF node.via = "own" THEN parents[node.of] ELSE Obj(node.via)

\* A _modified() that marks the node alone.
_modified_alone(parents, node, seen) ==
    [marked |-> {node}, exc |-> "none"]

\* node._modified(): the nodes marked, and RuntimeError when the parents
\* form a cycle and the recursion never ends.
RECURSIVE _modified(_, _, _)
_modified(parents, node, seen) ==
    IF node = NoParent THEN [marked |-> seen, exc |-> "none"]
    ELSE IF node \in seen THEN [marked |-> seen, exc |-> "RuntimeError"]
    ELSE _modified(parents, ParentIn(parents, node), seen \cup {node})

\* The flags of the objects once the nodes are marked.
Marked(marked) == [o \in Objects |-> flags[o] \/ Obj(o) \in marked]

\* o[key] = val (generic set) or o.storeString / storeList / storeSet
\* (typed): val is a text or one of the objects.
TreeStore(o, key, val, typed) ==
    /\ typed => val \in Objects \cup {"text"}
    /\ LET entry == IF val = "text" THEN Text
                    ELSE IF val \in ListObjects THEN Entry("list", val)
                    ELSE IF typed THEN Entry("StorageSet", val)
                    ELSE Entry("dict", val)
           adopted == IF val \in Objects THEN [parent EXCEPT ![val] = Obj(o)] ELSE parent
           walk == _modified(adopted, Obj(o), {})
       IN /\ inside' = [inside EXCEPT ![o] = DictSet(@, key, entry)]
          /\ parent' = adopted
          /\ flags' = Marked(walk.marked)
          /\ last' = [op |-> IF typed THEN "store" ELSE "setitem", node |-> Obj(o),  val |-> val, mutated |-> TRUE,
                      marked |-> walk.marked, exc |-> walk.exc]
    /\ UNCHANGED <<dispatcher, others, registry, storage>>

\* del o[key]
TreeDel(o, key) ==
    /\ LET walk == _modified(parent, Obj(o), {})
           there == key \in DOMAIN inside[o]
       IN /\ inside' = IF there THEN [inside EXCEPT ![o] = DictDel(@, key)] ELSE inside
          /\ flags' = IF there THEN Marked(walk.marked) ELSE flags
          /\ last' = [op |-> "delitem", node |-> Obj(o), val |-> "",
                      mutated |-> there,
                      marked |-> IF there THEN walk.marked ELSE {},
                      exc |-> IF there THEN walk.exc ELSE "KeyError"]
    /\ UNCHANGED <<dispatcher, others, registry, storage, parent>>

\* list.add(set), for the list object itself or for the wrapper that
\* o[key] or o.readList(key) makes around its list.
Add_(list, set) ==
    /\ Len(inside[list.of]) < MaxList
    /\ IF ParentIn(parent, list) = Obj(set)
       THEN /\ last' = [op |-> "add", node |-> list, val |-> set,
                        mutated |-> FALSE, marked |-> {}, exc |-> "ValueError"]
            /\ UNCHANGED tree
       ELSE LET adopted == IF parent[set] = NoParent
                           THEN [parent EXCEPT ![set] = list] ELSE parent
                walk == _modified(adopted, list, {})
            IN /\ inside' = [inside EXCEPT ![list.of] = Append(@, set)]
               /\ parent' = adopted
               /\ flags' = Marked(walk.marked)
               /\ last' = [op |-> "add", node |-> list, val |-> set,
                           mutated |-> TRUE, marked |-> walk.marked, exc |-> walk.exc]
    /\ UNCHANGED <<dispatcher, others, registry, storage>>

\* o[key].add(set), o.readList(key).add(set)
ViaAdd(o, key, set) ==
    /\ key \in DOMAIN inside[o]
    /\ inside[o][key].t = "list"
    /\ Add_(Wrapper(inside[o][key].of, o), set)

\* o[key][key2] = "x", o.readSet(key)[key2] = "x": a set on the wrapper
\* that the get makes around the dict held under the key.
ViaSet(o, key, key2) ==
    /\ key \in DOMAIN inside[o]
    /\ inside[o][key].t = "dict"
    /\ LET node == Wrapper(inside[o][key].of, o)
           walk == _modified(parent, node, {})
       IN /\ inside' = [inside EXCEPT ![node.of] = DictSet(@, key2, Text)]
          /\ flags' = Marked(walk.marked)
          /\ last' = [op |-> "setitem", node |-> node, val |-> "text",
                      mutated |-> TRUE, marked |-> walk.marked, exc |-> walk.exc]
    /\ UNCHANGED <<dispatcher, others, registry, storage, parent>>

\* for set in list: set[key] = "x", for the i-th set of the list: a set on
\* the wrapper that the iteration makes around its dict.
ViaIter(list, i, key) ==
    /\ i \in 1..Len(inside[list])
    /\ LET node == Wrapper(inside[list][i], list)
           walk == _modified(parent, node, {})
       IN /\ inside' = [inside EXCEPT ![node.of] = DictSet(@, key, Text)]
          /\ flags' = Marked(walk.marked)
          /\ last' = [op |-> "setitem", node |-> node, val |-> "text",
                      mutated |-> TRUE, marked |-> walk.marked, exc |-> walk.exc]
    /\ UNCHANGED <<dispatcher, others, registry, storage, parent>>

\* The stores of the specification: g["k"] = p, p["k"] = l, p["j"] = s,
\* p["j"] = g, s.storeString("k", "x"), g.storeList("k", l),
\* g.storeSet("k", s).
TreeStores ==
    {<<"g", "k", "p", FALSE>>, <<"p", "k", "l", FALSE>>, <<"p", "j", "s", FALSE>>,
     <<"p", "j", "g", FALSE>>, <<"s", "k", "text", TRUE>>, <<"g", "k", "l", TRUE>>,
     <<"g", "k", "s", TRUE>>}

NextTree ==
    \/ \E call \in TreeStores : TreeStore(call[1], call[2], call[3], call[4])
    \/ \E o \in {"p", "s"} : TreeDel(o, "k")
    \/ \E list \in ListObjects, set \in SetObjects : Add_(Obj(list), set)
    \/ \E o \in {"p", "g"} : ViaAdd(o, "k", "s")
    \/ ViaSet("g", "k", "j")
    \/ \E list \in ListObjects, i \in 1..MaxList : ViaIter(list, i, "k")

SpecTree == Init /\ [][NextTree]_vars

\* ------------------------------------------------------------------------
\* Specification of the other public calls: iteration, membership and the
\* typed readers and storers, with the sentinel keys among their keys
\* ------------------------------------------------------------------------

NextPublic ==
    \/ \E key \in StorageKeys : SetItem(<<>>, key, Unicode(TextX))
    \/ \E iteration \in DictOrders(StorageKeys) : WriteLoad(iteration)
    \/ \E iteration \in DictOrders(DOMAIN _data) : Keys(iteration)
    \/ \E key \in AnyKeys : Contains(key)
    \/ \E key \in AnyKeys : ReadString(key)
    \/ \E key \in AnyKeys : ReadInt(key)
    \/ \E key \in AnyKeys : ReadList(key)
    \/ \E key \in AnyKeys : StoreString(key, Unicode(TextX))
    \/ \E key \in AnyKeys : StoreInt(key, Num(1))

SpecPublic == Init /\ [][NextPublic]_vars

\* ------------------------------------------------------------------------
\* Specification of the files: a set loaded from files written by hand,
\* some of them malformed, then changed and written
\* ------------------------------------------------------------------------

\* A file as write leaves it.
FileWritten ==
    <<<<"a", " ", ":", " ", "x">>,
      <<"b", "b", ":", " ", "y">>,
      <<"-">>>>

\* A file edited by hand, with a key on two lines.
FileTwice ==
    <<<<"a", ":", " ", "x">>,
      <<"a", ":", " ", "y">>,
      <<"-">>>>

\* A file that ends without the terminator of its set.
FileNoTerminator ==
    <<<<"a", ":", " ", "x">>>>

\* A file with a line that has no key separator.
FileNoSeparator ==
    <<<<"a", ":", " ", "x">>,
      <<"b">>,
      <<"-">>>>

\* A file with a type marker that does not exist.
FileBadMarker ==
    <<<<"a", ":", " ", "x">>,
      <<"b", ":", "?", "y">>,
      <<"-">>>>

\* A file with a line indented deeper than its set, after no nested marker.
FileTooDeep ==
    <<<<"a", ":", " ", "x">>,
      <<" ", " ", " ", " ", "b", ":", " ", "y">>,
      <<"-">>>>

\* A file whose nested set and whose root set lack their terminators.
FileNestedOpen ==
    <<<<"b", "b", ":", "-">>,
      <<" ", " ", "a", ":", " ", "x">>>>

Malformed == {FileNoTerminator, FileNoSeparator, FileBadMarker, FileTooDeep, FileNestedOpen}

Files == {FileWritten, FileTwice} \cup Malformed

NextFiles ==
    \/ \E file \in Files : Load(file)
    \/ \E key \in StorageKeys : SetItem(<<>>, key, Unicode(TextX))
    \/ \E key \in StorageKeys : DelItem(<<>>, key)
    \/ \E iteration \in DictOrders(StorageKeys) : WriteLoad(iteration)

SpecFiles == Init /\ [][NextFiles]_vars

\* ------------------------------------------------------------------------
\* Specification of the scalars: booleans, integers and texts of every
\* shape the decoding of generic get tells apart, set and read back
\* ------------------------------------------------------------------------

ScalarTexts ==
    {<<>>, <<"x">>, <<"y", "e", "s">>, <<"n", "o">>, <<"7">>, <<"4", "2", "a", "b", "c">>,
     <<"1", ".", "5">>, <<"5", ".">>, <<".">>, <<"1", ".", "2", ".", "3">>, <<"-", "5">>}

ScalarValues ==
    {Bool(TRUE), Bool(FALSE), Num(0), Num(42), Num(-5)} \cup {Unicode(s) : s \in ScalarTexts}

NextScalars ==
    \/ \E key \in StorageKeys, val \in ScalarValues : SetItem(<<>>, key, val)
    \/ \E key \in StorageKeys : GetItem(<<>>, key)

SpecScalars == Init /\ [][NextScalars]_vars

\* ------------------------------------------------------------------------
\* Specification of the typed mutators: a value stored with each of them,
\* then read with generic get or written
\* ------------------------------------------------------------------------

TypedKeys == {KeyA}

NextTyped ==
    \/ \E key \in StorageKeys, val \in {Bool(TRUE), Bool(FALSE)} : StoreBool(key, val)
    \/ \E key \in TypedKeys, val \in {Num(7)} : StoreInt(key, val)
    \/ \E key \in TypedKeys, val \in {Unicode(TextX), Unicode(<<"7">>)} :
          StoreString(key, val)
    \/ \E key \in StorageKeys, val \in {StorageList(<<>>), StorageList(<<EmptyDict>>)} :
          StoreList(key, val)
    \/ \E key \in TypedKeys, val \in {StorageSet(EmptyDict)} : StoreSet(key, val)
    \/ \E key \in StorageKeys : GetItem(<<>>, key)
    \/ \E iteration \in DictOrders(StorageKeys) : WriteLoad(iteration)

SpecTyped == Init /\ [][NextTyped]_vars

\* ------------------------------------------------------------------------
\* Bitvectors (nakedsun/bitvectors.py)
\* ------------------------------------------------------------------------

\* The names of the bits: "one" and "two" are the bits of the tests, "any"
\* is a bit that is named like a method of the class.
BitOne == <<"o", "n", "e">>

BitTwo == <<"t", "w", "o">>

BitAny == <<"a", "n", "y">>

BitNames == {BitOne, BitTwo, BitAny}

\* The names the class Bitvector defines: an attribute of one of these
\* names is found on the class, and __getattr__ is not called.
ClassAttributes ==
    {<<"a", "n", "y">>, <<"c", "l", "e", "a", "r">>, <<"c", "o", "p", "y">>,
     <<"s", "e", "t", "a", "l", "l">>}

\* Number of bits a vector type is given.
MaxBits == 3

\* The bits argument of the constructor when it is left out.
NoBits == [t |-> "None", s |-> <<>>]

\* The bits a vector type declares: `key in vector` on its list.
Declared(vector) == {vector[i] : i \in 1..Len(vector)}

\* words.split(',')
RECURSIVE SplitCommas(_)
SplitCommas(s) ==
    IF \A i \in 1..Len(s) : s[i] # "," THEN <<s>>
    ELSE LET i == Min({j \in 1..Len(s) : s[j] = ","})
         IN <<SubSeq(s, 1, i - 1)>> \o SplitCommas(SubSeq(s, i + 1, Len(s)))

\* _bits_from_string(vector, words): the set of bits, or ValueError for a
\* word that is no bit of the vector.
_bits_from_string(vector, words) ==
    LET split == SplitCommas(words)
        stripped == [i \in 1..Len(split) |-> strip(split[i])]
    IN IF \E i \in 1..Len(split) : stripped[i] \notin Declared(vector)
       THEN [exc |-> "ValueError", out |-> {}]
       ELSE [exc |-> "none", out |-> {stripped[i] : i \in 1..Len(split)}]

\* ', '.join(words)
RECURSIVE JoinCommas(_)
JoinCommas(words) ==
    IF words = <<>> THEN <<>>
    ELSE IF Len(words) = 1 THEN words[1]
    ELSE words[1] \o <<",", " ">> \o JoinCommas(Tail(words))

\* A string form that lists the bits in the order of their names' lengths
\* and leaves out the separator.
__str___run_together(bits) ==
    IF bits = {} THEN <<>>
    ELSE LET first == CHOOSE b \in bits : \A o \in bits : Len(b) <= Len(o)
         IN first \o JoinCommas(Sorted(bits \ {first}))

\* __str__: ', '.join(sorted(self._bits))
__str__(bits) == JoinCommas(Sorted(bits))

\* b.key for a key without leading underscore: the attribute of the class
\* when the class has one of that name, else what __getattr__ returns or
\* raises.
__getattr__(vector, bits, key) ==
    IF key \in ClassAttributes THEN "method"
    ELSE IF key \notin Declared(vector) THEN "AttributeError"
    ELSE IF key \in bits THEN "True" ELSE "False"

\* create_bitvector(bitvector, *bits)
create_bitvector(bitvector, bits) ==
    /\ Len(IF bitvector \in DOMAIN bitvectors THEN bitvectors[bitvector] ELSE <<>>)
          + Len(bits) <= MaxBits
    /\ bitvectors' = DictSet(bitvectors, bitvector,
                         (IF bitvector \in DOMAIN bitvectors
                          THEN bitvectors[bitvector] ELSE <<>>) \o bits)
    /\ last' = [op |-> "create_bitvector", vector |-> bitvector]
    /\ UNCHANGED <<dispatcher, registry, storage, tree, mudsock, _vecname, _bits>>

\* inst = Bitvector(vector, bits) with a vector name and, for bits, nothing
\* or a string.
NewBitvector(inst, vector, bits) ==
    /\ LET parsed == IF bits.s = <<>> THEN [exc |-> "none", out |-> {}]
                     ELSE _bits_from_string(bitvectors[vector], bits.s)
           exc == IF vector \notin DOMAIN bitvectors THEN "KeyError" ELSE parsed.exc
       IN /\ IF exc = "none"
             THEN /\ _vecname' = [_vecname EXCEPT ![inst] = vector]
                  /\ _bits' = [_bits EXCEPT ![inst] = parsed.out]
             ELSE UNCHANGED <<_vecname, _bits>>
          /\ last' = [op |-> "new", inst |-> inst, vector |-> vector, bits |-> bits,
                      exc |-> exc]
    /\ UNCHANGED <<dispatcher, registry, storage, tree, mudsock, bitvectors>>

\* inst.copy(), Bitvector(inst): the constructor reads the name `vectors`,
\* which is not defined.
Copy(inst) ==
    /\ _vecname[inst] # "None"
    /\ last' = [op |-> "copy", inst |-> inst, exc |-> "NameError"]
    /\ UNCHANGED <<dispatcher, registry, storage, tree, mudsock, bitvectors, _vecname, _bits>>

\* inst.key
GetAttr(inst, key) ==
    /\ _vecname[inst] # "None"
    /\ last' = [op |-> "getattr", inst |-> inst, key |-> key,
                value |-> __getattr__(bitvectors[_vecname[inst]], _bits[inst], key)]
    /\ UNCHANGED <<dispatcher, registry, storage, tree, mudsock, bitvectors, _vecname, _bits>>

\* inst.key = val
SetAttr(inst, key, val) ==
    /\ _vecname[inst] # "None"
    /\ LET declared == key \in Declared(bitvectors[_vecname[inst]])
       IN /\ _bits' = IF ~declared THEN _bits
                      ELSE IF val THEN [_bits EXCEPT ![inst] = @ \cup {key}]
                      ELSE [_bits EXCEPT ![inst] = @ \ {key}]
          /\ last' = [op |-> "setattr", inst |-> inst, key |-> key, val |-> val,
                      exc |-> IF declared THEN "none" ELSE "AttributeError"]
    /\ UNCHANGED <<dispatcher, registry, storage, tree, mudsock, bitvectors, _vecname>>

\* str(inst)
StrOf(inst) ==
    /\ _vecname[inst] # "None"
    /\ last' = [op |-> "str", inst |-> inst, value |-> __str__(_bits[inst])]
    /\ UNCHANGED <<dispatcher, registry, storage, tree, mudsock, bitvectors, _vecname, _bits>>

\* inst.any()
AnyOf(inst) ==
    /\ _vecname[inst] # "None"
    /\ last' = [op |-> "any", inst |-> inst, value |-> _bits[inst] # {}]
    /\ UNCHANGED <<dispatcher, registry, storage, tree, mudsock, bitvectors, _vecname, _bits>>

\* inst.clear()
Clear(inst) ==
    /\ _vecname[inst] # "None"
    /\ _bits' = [_bits EXCEPT ![inst] = {}]
    /\ last' = [op |-> "clear", inst |-> inst]
    /\ UNCHANGED <<dispatcher, registry, storage, tree, mudsock, bitvectors, _vecname>>

\* inst.setall(val)
SetAll(inst, val) ==
    /\ _vecname[inst] # "None"
    /\ _bits' = [_bits EXCEPT ![inst] =
                    IF val THEN Declared(bitvectors[_vecname[inst]]) ELSE {}]
    /\ last' = [op |-> "setall", inst |-> inst, val |-> val]
    /\ UNCHANGED <<dispatcher, registry, storage, tree, mudsock, bitvectors, _vecname>>

\* inst = Bitvector(vector, str(from)): the string form of one bitvector
\* handed to the constructor of another.
FromStr(inst, from) ==
    /\ _vecname[from] # "None"
    /\ inst # from
    /\ NewBitvector(inst, _vecname[from], Bytes(__str__(_bits[from])))

\* ------------------------------------------------------------------------
\* Specification of the bitvectors: one vector type, two instances
\* ------------------------------------------------------------------------

BitLists == {<<BitOne, BitTwo>>, <<BitAny>>}

BitWords ==
    {NoBits, Bytes(BitOne), Bytes(BitOne \o <<",", " ">> \o BitTwo),
     Bytes(BitOne \o <<",">> \o BitTwo), Bytes(<<"s">>)}

NextBits ==
    \/ \E vector \in VectorNames, bits \in BitLists : create_bitvector(vector, bits)
    \/ \E inst \in Instances, vector \in VectorNames, bits \in BitWords :
          NewBitvector(inst, vector, bits)
    \/ \E inst \in Instances : Copy(inst)
    \/ \E inst \in Instances, key \in BitNames : GetAttr(inst, key)
    \/ \E inst \in Instances, key \in BitNames, val \in BOOLEAN : SetAttr(inst, key, val)
    \/ \E inst \in Instances : StrOf(inst)
    \/ \E inst \in Instances : AnyOf(inst)
    \/ \E inst \in Instances : Clear(inst)
    \/ \E inst \in Instances, val \in BOOLEAN : SetAll(inst, val)
    \/ \E inst \in Instances, from \in Instances : FromStr(inst, from)

SpecBits == Init /\ [][NextBits]_vars

\* ------------------------------------------------------------------------
\* The connection (nakedsun/mudsock.py): input handlers
\* ------------------------------------------------------------------------

\* An input handler function: a Python function or another callable (an
\* object with __call__, a functools.partial), which has no func_name, and
\* what it does with the data it is given: return it, return it with
\* something added, return nothing, raise an exception derived from
\* Exception, raise one that is not.
Handler(kind, does) == [kind |-> kind, does |-> does]

\* An entry of the stack: (handler_func, prompt_func, state, cleanup_func).
\* The prompt function writes nothing, sends a text or raises; the cleanup
\* function is None, returns or raises.
InputHandler(handler, prompt, state, cleanup) ==
    [handler |-> handler, prompt |-> prompt, state |-> state, cleanup |-> cleanup]

\* self._ihs[-1] and self._ihs[:-1]
Top(ihs) == ihs[Len(ihs)]

Below(ihs) == SubSeq(ihs, 1, Len(ihs) - 1)

\* pop_ih(): what it returns or raises, the stack afterwards, the entries
\* whose cleanup function was called and the number of failures logged.
pop_ih(ihs) ==
    IF ihs = <<>> THEN [result |-> "False", ihs |-> ihs, cleaned |-> <<>>, logged |-> 0]
    ELSE LET top == Top(ihs)
             popped == [ihs |-> Below(ihs),
                        cleaned |-> IF top.cleanup = "None" THEN <<>> ELSE <<top>>]
         IN CASE top.cleanup \in {"None", "ok"} ->
                     popped @@ [result |-> "True", logged |-> 0]
              \* except Exception: state = handler.func_name when the state is empty
              [] top.cleanup = "Exception" ->
                     IF top.state = "" /\ top.handler.kind # "function"
                     THEN popped @@ [result |-> "AttributeError", logged |-> 0]
                     ELSE popped @@ [result |-> "True", logged |-> 1]
              [] OTHER -> popped @@ [result |-> top.cleanup, logged |-> 0]

\* while self.pop_ih(): continue
RECURSIVE PopAll(_)
PopAll(ihs) ==
    LET one == pop_ih(ihs) IN
    IF one.result # "True" THEN one
    ELSE LET rest == PopAll(one.ihs)
         IN [result |-> rest.result, ihs |-> rest.ihs,
             cleaned |-> one.cleaned \o rest.cleaned,
             logged |-> one.logged + rest.logged]

\* _schedule_write(): the flag and the callbacks handed to the engine.
Scheduled(flag, pending) ==
    IF flag THEN [flag |-> TRUE, pending |-> pending]
    ELSE [flag |-> TRUE, pending |-> pending + 1]

\* sock.push_ih(handler_func, prompt_func, state, cleanup_func)
PushIh(handler_func, prompt_func, state, cleanup_func) ==
    /\ Len(_ihs) < MaxHandlers
    /\ IF prompt_func = "None" /\ _ihs = <<>>
       THEN /\ last' = [op |-> "push_ih", exc |-> "TypeError"]
            /\ UNCHANGED _ihs
       ELSE /\ _ihs' = Append(_ihs, InputHandler(
                           handler_func,
                           IF prompt_func = "None" THEN Top(_ihs).prompt ELSE prompt_func,
                           IF state # "None" THEN state
                           ELSE IF _ihs # <<>> THEN Top(_ihs).state ELSE "",
                           cleanup_func))
            /\ last' = [op |-> "push_ih", exc |-> "none"]
    /\ UNCHANGED <<dispatcher, registry, storage, tree, bitstate, output, _connection>>

\* sock.pop_ih()
PopIh ==
    /\ LET call == pop_ih(_ihs)
       IN /\ _ihs' = call.ihs
          /\ last' = [op |-> "pop_ih", result |-> call.result, cleaned |-> call.cleaned,
                      logged |-> call.logged]
    /\ UNCHANGED <<dispatcher, registry, storage, tree, bitstate, output, _connection>>

\* sock.close(): the handlers are popped, then the connection is closed.
Close ==
    /\ LET call == PopAll(_ihs)
       IN /\ _ihs' = call.ihs
          /\ _connection' = IF call.result = "False" THEN "None" ELSE _connection
          /\ last' = [op |-> "close",
                      result |-> IF call.result = "False" THEN "returned" ELSE call.result,
                      cleaned |-> call.cleaned, logged |-> call.logged]
    /\ UNCHANGED <<dispatcher, registry, storage, tree, bitstate, output>>

\* The remote end closes the connection.
Disconnect ==
    /\ _connection = "open"
    /\ _connection' = "lost"
    /\ last' = [op |-> "disconnect"]
    /\ UNCHANGED <<dispatcher, registry, storage, tree, bitstate, output, _ihs>>

\* data[:-1] if data.endswith("\r")
WithoutReturn(data) ==
    IF data # <<>> /\ data[Len(data)] = "\r" THEN SubSeq(data, 1, Len(data) - 1) ELSE data

\* What a handler returns for the data: nothing (None) is the empty text.
Returned(handler, data) ==
    CASE handler.does = "passes" -> data
      [] handler.does = "adds" -> data \o <<"!">>
      [] OTHER -> <<>>

\* while data: handler = handlers.pop(); data = handler(self, data): the
\* calls made, with the data each handler was given, and how the loop
\* ended.
RECURSIVE Handle(_, _)
Handle(handlers, data) ==
    IF data = <<>> THEN [calls |-> <<>>, result |-> "done"]
    ELSE IF handlers = <<>> THEN [calls |-> <<>>, result |-> "IndexError"]
    ELSE LET entry == Top(handlers)
             call == [handler |-> entry.handler, data |-> data]
             rest == Handle(Below(handlers), Returned(entry.handler, data))
         IN CASE entry.handler.does = "Exception" ->
                     [calls |-> <<call>>, result |-> "done"]
              [] entry.handler.does = "BaseException" ->
                     [calls |-> <<call>>, result |-> "BaseException"]
              [] OTHER -> [calls |-> <<call>> \o rest.calls, result |-> rest.result]

\* The entry that a function registered for the bare_socket hook pushes.
BareHandler == InputHandler(Handler("function", "consumes"), "silent", "", "None")

\* connection.on_read = self._on_read: a line has arrived.  `bare` tells
\* whether a function registered for the bare_socket hook pushes a handler.
OnRead(received, bare) ==
    /\ _connection # "None"
    /\ LET data == WithoutReturn(received)
           filled == IF _ihs = <<>> /\ bare THEN <<BareHandler>> ELSE _ihs
           handled == Handle(filled, data)
           busted == Scheduled(_scheduled_for_write, callbacks)
           call == [op |-> "on_read", data |-> data, before |-> _ihs]
       IN IF filled = <<>> /\ _connection = "open"
          THEN \* self.close(); return
               /\ _ihs' = filled
               /\ _connection' = "None"
               /\ last' = call @@ [calls |-> <<>>, result |-> "closed", busted |-> FALSE]
               /\ UNCHANGED output
          ELSE /\ _ihs' = filled
               /\ UNCHANGED <<_connection, _out_buffer, writes, sent>>
               /\ last' = call @@ [calls |-> handled.calls,
                                   result |-> IF handled.result = "done" THEN "returned"
                                              ELSE handled.result,
                                   busted |-> handled.result = "done"]
               /\ IF handled.result = "done"
                  THEN /\ _busted' = TRUE
                       /\ _scheduled_for_write' = busted.flag
                       /\ callbacks' = busted.pending
                  ELSE UNCHANGED <<_busted, _scheduled_for_write, callbacks>>
    /\ UNCHANGED <<dispatcher, registry, storage, tree, bitstate>>

\* ------------------------------------------------------------------------
\* The connection: output
\* ------------------------------------------------------------------------

\* An item of the output buffer: a unicode text queued by send or send_raw,
\* or a byte string queued by send_data.  `id` is the rank of the item among
\* the items queued.
Item(type, id) == [type |-> type, id |-> id]

\* The texts that have gathered in outbound_text, joined and encoded into
\* one string for the connection.
Flushed(outbound_text) ==
    IF outbound_text = <<>> THEN <<>>
    ELSE <<[i \in 1..Len(outbound_text) |-> outbound_text[i].id]>>

RECURSIVE _handle_write_raw_first(_, _)
RECURSIVE _handle_write(_, _)

\* An output loop that writes the byte strings ahead of the text gathered
\* before them.
_handle_write_raw_first(buffer, outbound_text) ==
    IF buffer = <<>> THEN Flushed(outbound_text)
    ELSE IF Head(buffer).type = "str"
    THEN <<<<Head(buffer).id>>>> \o _handle_write_raw_first(Tail(buffer), outbound_text)
    ELSE _handle_write_raw_first(Tail(buffer), Append(outbound_text, Head(buffer)))

\* _handle_write(mode): the strings handed to connection.write, each the
\* ids of the items it holds, for a buffer and the text gathered so far.
\* No function is registered for the process_outbound and finalize_outbound
\* hooks.
_handle_write(buffer, outbound_text) ==
    IF buffer = <<>> THEN Flushed(outbound_text)
    ELSE IF Head(buffer).type = "str"
    THEN Flushed(outbound_text) \o <<<<Head(buffer).id>>>>
         \o _handle_write(Tail(buffer), <<>>)
    ELSE _handle_write(Tail(buffer), Append(outbound_text, Head(buffer)))

\* sock.send(message), sock.send_raw(message) with a unicode message, and
\* sock.send_data(data) with a byte string.
Send(type) ==
    /\ sent < MaxSent
    /\ sent' = sent + 1
    /\ _out_buffer' = Append(_out_buffer, Item(type, sent + 1))
    /\ _scheduled_for_write' = Scheduled(_scheduled_for_write, callbacks).flag
    /\ callbacks' = Scheduled(_scheduled_for_write, callbacks).pending
    /\ last' = [op |-> "send", type |-> type]
    /\ UNCHANGED <<dispatcher, registry, storage, tree, bitstate, _ihs, _connection,
                   _busted, writes>>

\* sock.send_data(data) with a unicode string
SendDataUnicode ==
    /\ last' = [op |-> "send_data", exc |-> "TypeError"]
    /\ UNCHANGED <<dispatcher, registry, storage, tree, bitstate, mudsock>>

\* sock.bust_prompt()
BustPrompt ==
    /\ _busted' = TRUE
    /\ _scheduled_for_write' = Scheduled(_scheduled_for_write, callbacks).flag
    /\ callbacks' = Scheduled(_scheduled_for_write, callbacks).pending
    /\ last' = [op |-> "bust_prompt"]
    /\ UNCHANGED <<dispatcher, registry, storage, tree, bitstate, _ihs, _connection,
                   _out_buffer, writes, sent>>

\* The engine calls _perform_write: the buffer is written, then the prompt
\* of the top handler is shown and what it sent is writes.
PerformWrite ==
    /\ callbacks > 0
    /\ LET pending == callbacks - 1
           prompts == _busted /\ _ihs # <<>> /\ Top(_ihs).prompt = "sends"
           prompt == IF prompts THEN <<Item("unicode", sent + 1)>> ELSE <<>>
           first == _handle_write(_out_buffer, <<>>)
           second == _handle_write(prompt, <<>>)
       IN /\ prompts => sent < MaxSent
          /\ IF _connection # "open"
             THEN /\ _scheduled_for_write' = FALSE
                  /\ callbacks' = pending
                  /\ last' = [op |-> "_perform_write", result |-> "no connection"]
                  /\ UNCHANGED <<_out_buffer, writes, sent, _busted>>
             ELSE IF _out_buffer = <<>> /\ (_ihs = <<>> \/ ~_busted)
             THEN /\ _scheduled_for_write' = FALSE
                  /\ callbacks' = pending
                  /\ last' = [op |-> "_perform_write", result |-> "nothing to write"]
                  /\ UNCHANGED <<_out_buffer, writes, sent, _busted>>
             ELSE /\ _out_buffer' = <<>>
                  /\ writes' = writes \o first \o (IF _busted THEN second ELSE <<>>)
                  /\ sent' = sent + Len(prompt)
                  /\ _busted' = FALSE
                  \* the send of the prompt function schedules the next write
                  /\ _scheduled_for_write' = prompts
                  /\ callbacks' = IF prompts THEN pending + 1 ELSE pending
                  /\ last' = [op |-> "_perform_write", result |-> "written"]
    /\ UNCHANGED <<dispatcher, registry, storage, tree, bitstate, _ihs, _connection>>

\* ------------------------------------------------------------------------
\* Specification of the input handlers: push, pop, close and the lines
\* that arrive
\* ------------------------------------------------------------------------

Pushes ==
    {<<Handler("function", "passes"), "silent", "None", "ok">>,
     <<Handler("function", "adds"), "None", "play", "Exception">>,
     <<Handler("object", "consumes"), "silent", "None", "Exception">>,
     <<Handler("function", "Exception"), "sends", "play", "None">>,
     <<Handler("function", "BaseException"), "silent", "", "BaseException">>}

Lines == {<<>>, <<"x">>, <<"x", "\r">>}

NextHandlers ==
    \/ \E push \in Pushes : PushIh(push[1], push[2], push[3], push[4])
    \/ PopIh
    \/ Close
    \/ Disconnect
    \/ \E received \in Lines, bare \in BOOLEAN : OnRead(received, bare)

SpecHandlers == Init /\ [][NextHandlers]_vars

\* ------------------------------------------------------------------------
\* Specification of the output: sends, busted prompts and the writes of
\* the engine, on a connection that stays open
\* ------------------------------------------------------------------------

Prompts ==
    {<<Handler("function", "consumes"), "sends", "play", "None">>,
     <<Handler("function", "consumes"), "silent", "play", "None">>}

NextOutput ==
    \/ \E push \in Prompts : PushIh(push[1], push[2], push[3], push[4])
    \/ PopIh
    \/ \E type \in {"unicode", "str"} : Send(type)
    \/ SendDataUnicode
    \/ BustPrompt
    \/ PerformWrite

SpecOutput == Init /\ [][NextOutput]_vars

\* ------------------------------------------------------------------------
\* Properties of the tables
\* ------------------------------------------------------------------------

\* The list registered for a hook in a table, empty when the hook is absent.
ListOf(table, hook) == IF hook \in DOMAIN table THEN table[hook] ELSE <<>>

\* The callables held in the priority buckets of a hook.
RegisteredOn(hook) ==
    IF hook \notin DOMAIN _hook_priorities THEN {}
    ELSE UNION {{_hook_priorities[hook][p][i] : i \in 1..Len(_hook_priorities[hook][p])} :
                p \in DOMAIN _hook_priorities[hook]}

\* a runs before b: higher priority first, registration order within one
\* priority.
RunsBefore(a, b) ==
    \/ a.priority > b.priority
    \/ a.priority = b.priority /\ a.stamp < b.stamp

\* C1: after any sequence of add and remove on a hook, a run of the hook (no
\* handler raising) invokes exactly the callables currently registered in
\* its priority buckets, by descending priority, and callables of one
\* priority in the order of their registration.
C1_RunOrder ==
    last.op = "run" =>
        /\ \A i, j \in 1..Len(last.calls) :
              i < j => RunsBefore(last.calls[i].callable, last.calls[j].callable)
        /\ {last.calls[i].callable : i \in 1..Len(last.calls)} = RegisteredOn(last.hook)
        /\ \A c \in RegisteredOn(last.hook) :
              /\ c.priority \in DOMAIN _hook_priorities[last.hook]
              /\ \E i \in 1..Len(_hook_priorities[last.hook][c.priority]) :
                    _hook_priorities[last.hook][c.priority][i] = c

\* Registered at priorities 0, 5, 0 in that order: the run invokes the
\* second registration, then the first, then the third.
C1_Witness ==
    /\ last.op = "run"
    /\ Len(last.calls) = 3
    /\ [i \in 1..3 |-> last.calls[i].callable.stamp] = <<2, 1, 3>>
    /\ [i \in 1..3 |-> last.calls[i].callable.priority] = <<5, 0, 0>>

\* C5: a hook that has no registered handler is absent from _hook_table,
\* never present with an empty list.
C5_EmptyHookAbsent ==
    \A hook \in Hooks :
        RegisteredOn(hook) = {} =>
            /\ hook \notin DOMAIN _hook_table
            /\ ListOf(_hook_table, hook) = <<>>

\* A callable is a registration of f when it is f itself or an old-style
\* wrapper of f.
RegistrationOf(c, f) ==
    \/ ~c.wrapped /\ c.function = f
    \/ c.wrapped /\ c.function = f

\* The indices of the registrations of f in a list.
RegistrationsOf(list, f) == {i \in 1..Len(list) : RegistrationOf(list[i], f)}

\* The bucket of a priority in the buckets of a hook, empty when absent.
BucketOf(priorities, hook, p) ==
    IF hook \in DOMAIN priorities /\ p \in DOMAIN priorities[hook]
    THEN priorities[hook][p] ELSE <<>>

\* C6: remove(hook, f) returns True exactly when a registration of f (f or
\* an old-style wrapper of f) is on the hook; it then drops exactly one such
\* registration from the run-order table and from its priority bucket, the
\* others keeping their order, and touches no other hook; otherwise it
\* returns False and leaves both tables as they were.
C6_Remove ==
    [][\A hook \in Hooks, f \in Funcs :
        Remove(hook, f) =>
            LET before == ListOf(_hook_table, hook)
                after == ListOf(_hook_table', hook)
            IN /\ last'.result = (RegistrationsOf(before, f) # {})
               /\ \A other \in Hooks \ {hook}, p \in Priorities :
                     /\ ListOf(_hook_table', other) = ListOf(_hook_table, other)
                     /\ BucketOf(_hook_priorities', other, p)
                           = BucketOf(_hook_priorities, other, p)
               /\ IF last'.result
                  THEN \E i \in RegistrationsOf(before, f) :
                          /\ after = DelAt(before, i)
                          /\ \A p \in Priorities :
                                LET old == BucketOf(_hook_priorities, hook, p)
                                    new == BucketOf(_hook_priorities', hook, p)
                                IN IF p = before[i].priority
                                   THEN \E k \in 1..Len(old) :
                                           old[k] = before[i] /\ new = DelAt(old, k)
                                   ELSE new = old
                  ELSE UNCHANGED tables]_vars

\* remove returned True on a hook that had three registrations and keeps two,
\* one of them the only registration left of its function.
C6_Witness ==
    /\ last.op = "remove"
    /\ last.result
    /\ \E hook \in Hooks :
          /\ registrations[hook] = 3
          /\ Len(ListOf(_hook_table, hook)) = 2
          /\ \E f \in Funcs : Cardinality(RegistrationsOf(ListOf(_hook_table, hook), f)) = 1

\* What a caller can tell of a run-order list: which function each entry
\* calls and whether through an old-style wrapper.
Visible(list) ==
    [i \in 1..Len(list) |-> [function |-> list[i].function, wrapped |-> list[i].wrapped]]

\* C7: when a function is registered several times on a hook, remove drops
\* the registration that comes first in the hook's run order.
C7_RemovesFirstInRunOrder ==
    [][\A hook \in Hooks, f \in Funcs :
        (Remove(hook, f) /\ last'.result) =>
            LET before == ListOf(_hook_table, hook)
                first == CHOOSE i \in RegistrationsOf(before, f) :
                             \A k \in RegistrationsOf(before, f) : i <= k
            IN Visible(ListOf(_hook_table', hook)) = Visible(DelAt(before, first))]_vars

\* ------------------------------------------------------------------------
\* Properties of the dispatch
\* ------------------------------------------------------------------------

\* The calls of the last run follow the run-order table of its hook from
\* the first entry on, each entry once.
FollowsTable ==
    /\ Len(last.calls) <= Len(ListOf(_hook_table, last.hook))
    /\ \A i \in 1..Len(last.calls) : last.calls[i].callable = _hook_table[last.hook][i]

\* The indices of the calls of the last run that raised one of these.
RaisedAt(kinds) == {i \in 1..Len(last.calls) : last.calls[i].raised \in kinds}

\* The state part of C2: the stop signal ends the run, and the run after a
\* stopped one starts at the head of the table.
C2_StopEndsTheRun ==
    last.op = "run" =>
        /\ FollowsTable
        /\ \A i \in RaisedAt({"StopIteration"}) :
              i = Len(last.calls) /\ last.result = "returned"
        /\ last.after_stop =>
              /\ ListOf(_hook_table, last.hook) # <<>>
              /\ last.calls # <<>>
              /\ last.calls[1].callable = _hook_table[last.hook][1]

\* C2: when a handler raises StopIteration, run returns without invoking any
\* later handler of the run order; the run of the same hook that follows
\* starts again at the first handler, and a run never changes the tables.
C2_StopPropagation ==
    /\ []C2_StopEndsTheRun
    /\ [][last'.op = "run" => UNCHANGED tables]_vars

\* A run right after a stopped run of the same hook, itself going past the
\* first handler of a hook that has two.
C2_Witness ==
    /\ last.op = "run"
    /\ last.after_stop
    /\ Len(ListOf(_hook_table, last.hook)) = 2
    /\ Len(last.calls) = 2
    /\ RaisedAt({"StopIteration"}) = {2}

\* Two calls of one run that reach the same function the same way received
\* the same arguments.
SameArguments ==
    \A i, j \in 1..Len(last.calls) :
        (/\ last.calls[i].callable.function = last.calls[j].callable.function
         /\ last.calls[i].callable.wrapped = last.calls[j].callable.wrapped)
        => /\ last.calls[i].entered = last.calls[j].entered
           /\ last.calls[i].received = last.calls[j].received

\* C3: an exception raised by a handler that is neither the stop signal
\* (StopIteration) nor a process-exit signal (SystemExit) is caught and
\* logged, the next handler of the run order is invoked with the same
\* arguments and, no handler raising the exit signal, run returns normally.
\* "BaseException" is an exception of that kind that does not derive from
\* Exception.
C3_AnyOtherException ==
    last.op = "run" =>
        /\ FollowsTable
        /\ SameArguments
        /\ last.logged = Cardinality(RaisedAt({"Exception", "BaseException"}))
        /\ \A i \in RaisedAt({"Exception", "BaseException"}) :
              i < Len(ListOf(_hook_table, last.hook)) => i < Len(last.calls)
        /\ RaisedAt({"SystemExit"}) = {} => last.result \in {"returned", "ValueError"}

\* C4: when a handler raises SystemExit (or a subclass such as
\* SystemCopyover), the signal leaves run, unlogged, and no later handler of
\* the run order is invoked.
C4_ExitPropagates ==
    last.op = "run" =>
        /\ FollowsTable
        /\ \A i \in RaisedAt({"SystemExit"}) :
              /\ i = Len(last.calls)
              /\ last.result = "SystemExit"
              /\ last.logged = Cardinality(RaisedAt({"Exception"}))
        /\ last.result = "SystemExit" => RaisedAt({"SystemExit"}) # {}

\* The first of two handlers raised SystemExit and the second was not
\* invoked.
C4_Witness ==
    /\ last.op = "run"
    /\ last.result = "SystemExit"
    /\ Len(ListOf(_hook_table, last.hook)) = 2
    /\ Len(last.calls) = 1

\* ------------------------------------------------------------------------
\* Properties of the packed-argument helpers
\* ------------------------------------------------------------------------

\* C8: parse_info(build_info(format, args)) equals args, element by element,
\* for every format and every tuple args.
C8_RoundTrip ==
    last.op = "info" =>
        /\ PyEq(last.parsed, last.args)
        /\ Len(last.parsed.items) = Len(last.args.items)
        /\ \A i \in 1..Len(last.args.items) : last.parsed.items[i] = last.args.items[i]

\* A tuple of three packed under a format that names one type.
C8_Witness ==
    /\ last.op = "info"
    /\ last.format = "str"
    /\ last.args.items = <<"some", "5", "things">>
    /\ last.info.cls = "BuildInfoTuple"

\* ------------------------------------------------------------------------
\* Properties of the inferred calling convention
\* ------------------------------------------------------------------------

\* The single packed value an old-style handler gets for the last run.
Packed == <<Tuple(Expanded(last.args))>>

\* C9 as stated: a handler with exactly one parameter, whatever its name,
\* registered without old_style, gets the single packed value on run.
C9_AnyOneParameter ==
    last.op = "run" =>
        \A i \in 1..Len(last.calls) :
            Len(Params[last.calls[i].callable.function]) = 1
            => last.calls[i].entered /\ last.calls[i].received = Packed

\* C9, amended: registered without old_style, a handler whose only parameter
\* is named 'info' is old-style and gets the single packed value on every
\* run; a handler whose only parameter has another name is not, and gets the
\* expanded arguments (never the packed value) whenever the call binds.
C9_InfoParameter ==
    last.op = "run" =>
        \A i \in 1..Len(last.calls) :
            LET c == last.calls[i] IN
            IF Params[c.callable.function] = <<"info">>
            THEN c.callable.wrapped /\ c.entered /\ c.received = Packed
            ELSE /\ ~c.callable.wrapped
                 /\ c.entered => c.received # Packed
                 /\ c.entered <=> Len(Expanded(last.args)) + Cardinality(last.kwargs) = 1
                 /\ (c.entered /\ last.kwargs = {}) => c.received = Expanded(last.args)

\* One run reached both kinds of handler: `compat` got the packed tuple,
\* `test` the string itself.
C9_Witness ==
    /\ last.op = "run"
    /\ last.args = <<Str("Bobby")>>
    /\ \E i, j \in 1..Len(last.calls) :
          /\ last.calls[i].callable.function = "compat"
          /\ last.calls[i].received = <<Tuple(<<Str("Bobby")>>)>>
          /\ last.calls[j].callable.function = "test"
          /\ last.calls[j].received = <<Str("Bobby")>>

\* The positions of the hook's run order that hold a handler with a single
\* parameter not named 'info'.
PlainOneParameter(list) ==
    {k \in 1..Len(list) :
        /\ Len(Params[list[k].function]) = 1
        /\ Params[list[k].function][1] # "info"}

\* The state part of C10: every registration of such a handler that the run
\* reaches is called once, with run's argument itself.
C10_InvokedOncePerRun ==
    (last.op = "run" /\ Len(last.args) = 1 /\ last.args[1].cls = "str" /\ last.kwargs = {}) =>
        LET list == ListOf(_hook_table, last.hook) IN
        /\ FollowsTable
        /\ \A k \in PlainOneParameter(list) :
              IF \E i \in 1..(k - 1) : i <= Len(last.calls) /\ last.calls[i].raised # "none"
              THEN TRUE
              ELSE /\ k <= Len(last.calls)
                   /\ last.calls[k].entered
                   /\ last.calls[k].received = last.args
                   /\ Cardinality({i \in 1..Len(last.calls) :
                                      last.calls[i].callable = list[k]}) = 1

\* C10: a handler with a single parameter not named 'info', registered
\* without old_style, is invoked once per run (for each of its registrations
\* that the run reaches) with run's positional argument itself; on a hook
\* that holds such handlers only, each run whose handlers return appends
\* that argument to `values`, so successive runs fill it in call order.
C10_PassThrough ==
    /\ []C10_InvokedOncePerRun
    /\ [][(/\ last'.op = "run"
           /\ <<last', values'>> # <<last, values>>
           /\ Len(last'.args) = 1 /\ last'.args[1].cls = "str" /\ last'.kwargs = {}
           /\ PlainOneParameter(ListOf(_hook_table, last'.hook))
                 = 1..Len(ListOf(_hook_table, last'.hook))
           /\ RaisedAt({"StopIteration"})' = {})
          => values' = values \o [i \in 1..Len(ListOf(_hook_table, last'.hook)) |->
                                     last'.args[1]]]_vars

\* Two runs, Bobby then Johnny, of a hook that holds `test` alone.
C10_Witness ==
    /\ last.op = "run"
    /\ last.args = <<Str("Johnny")>>
    /\ Len(ListOf(_hook_table, last.hook)) = 1
    /\ _hook_table[last.hook][1].function = "test"
    /\ values = <<Str("Bobby"), Str("Johnny")>>

\* ------------------------------------------------------------------------
\* Old-style and new-style handlers on one hook
\* ------------------------------------------------------------------------

\* The calls of the last run that reached an old-style (wrapped) handler,
\* and those that reached a new-style one.
OldStyleCalls == {i \in 1..Len(last.calls) : last.calls[i].callable.wrapped}

NewStyleCalls == {i \in 1..Len(last.calls) : ~last.calls[i].callable.wrapped}

\* C11: on every run that dispatches, with or without keyword arguments, an
\* old-style handler is entered with exactly one argument, and parse_info of
\* that argument equals the tuple of the run's positional arguments; a run
\* given the build_info marker of ("Bobby",) and a run given "Bobby" itself
\* hand it the same value; a new-style handler of the same run that the call
\* binds without keywords got the items of that same tuple, one parameter
\* each.
C11_OldStyleReceivesPacked ==
    last.op = "run" =>
        /\ \A i \in OldStyleCalls :
              LET c == last.calls[i] IN
              /\ c.entered
              /\ Len(c.received) = 1
              /\ PyEq(parse_info(c.received[1]), Tuple(Expanded(last.args)))
              /\ parse_info(c.received[1]).cls = "tuple"
              /\ last.args \in {<<BobbyInfo>>, <<Str("Bobby")>>}
                    => c.received = <<Tuple(<<Str("Bobby")>>)>>
              /\ \A j \in NewStyleCalls :
                    (last.calls[j].entered /\ last.kwargs = {})
                    => PyEq(Tuple(last.calls[j].received), parse_info(c.received[1]))
        /\ (last.result = "ValueError") => last.calls = <<>>

\* A run given the build_info marker reached both kinds of handler: `compat`
\* got the packed tuple, `test` the string.
C11_Witness ==
    /\ last.op = "run"
    /\ last.args = <<BobbyInfo>>
    /\ \E i \in OldStyleCalls, j \in NewStyleCalls :
          /\ last.calls[i].callable.function = "compat"
          /\ last.calls[i].received = <<Tuple(<<Str("Bobby")>>)>>
          /\ last.calls[j].callable.function = "test"
          /\ last.calls[j].received = <<Str("Bobby")>>

\* ------------------------------------------------------------------------
\* Properties of install
\* ------------------------------------------------------------------------

\* The tags owner classes are registered with.
RegisteredTags == {_types[cls] : cls \in DOMAIN _types}

\* The binding of a name under a tag, "None" when there is none.
Binding(classes, tag, name) ==
    IF tag \in DOMAIN classes /\ name \in DOMAIN classes[tag]
    THEN classes[tag][name] ELSE "None"

\* The tags an installs_on names.
TagsOf(installs_on) == {Normal(installs_on[i]) : i \in 1..Len(installs_on)}

\* C12: an install creates binding tables only for tags that an owner class
\* has been registered with.
C12_TableOnlyForRegisteredTag ==
    [][last'.op = "install"
       => (DOMAIN _classes') \ (DOMAIN _classes) \subseteq RegisteredTags]_vars

\* The tags a successful install logged a warning for.
Warned(call) == {call.warned[i] : i \in 1..Len(call.warned)}

\* The instance an owner holds under a name, None when it holds none.
HeldIn(auxiliary, owner, name) ==
    IF name \in DOMAIN auxiliary[owner] THEN auxiliary[owner][name] ELSE None

Held(owner, name) == HeldIn(_auxiliary, owner, name)

\* The state part of C13: an initialization hands every name the class
\* that is bound under the owner's tag at that time, and an initializer that
\* returned has left the owner an instance of that class, made by this
\* initialization.
C13_InitUsesBinding ==
    last.op = "init" =>
        \A i \in 1..Len(last.attempts) :
            LET a == last.attempts[i] IN
            /\ a.cls = Binding(_classes, last.my_type, a.key)
            /\ a.raised = "none" =>
                  /\ Held(last.owner, a.key).cls = a.cls
                  /\ Held(last.owner, a.key).round = inits[last.owner]

\* C13: an install that passes the sanity check binds the name to the class
\* under every tag it names; where the name was bound already it logs a
\* warning and replaces the binding; the bindings under other names and
\* other tags stay as they were; and the owners initialized afterwards get
\* their instances from the bindings as they are then.
C13_Overwrite ==
    /\ []C13_InitUsesBinding
    /\ [][(last'.op = "install" /\ last'.result = "returned") =>
          LET name == last'.name.items[1]
              tags == TagsOf(last'.installs_on)
          IN /\ \A tag \in tags : Binding(_classes', tag, name) = last'.cls
             /\ \A tag \in tags :
                   Binding(_classes, tag, name) # "None" => tag \in Warned(last')
             /\ Warned(last') \subseteq tags
             /\ \A tag \in Tags, n \in AuxNames :
                   (tag \notin tags \/ n # name)
                   => Binding(_classes', tag, n) = Binding(_classes, tag, n)
             /\ UNCHANGED <<_types, _auxiliary>>]_vars

\* An owner initialized before the second install holds a DynVarAux under
\* "dyn_vars"; an owner of the same tag initialized after it has just got a
\* Counter under that name.
C13_Witness ==
    /\ last.op = "init"
    /\ last.owner = "account2"
    /\ Held("account1", "dyn_vars").cls = "DynVarAux"
    /\ Held("account2", "dyn_vars").cls = "Counter"
    /\ Binding(_classes, "account", "dyn_vars") = "Counter"

\* The install described by the record was one the claim says is rejected.
Unacceptable(call) ==
    \/ ~({"copy", "copyTo", "store"} \subseteq Attributes[call.cls])
    \/ call.name.cls # "str"

\* C14: an install of a class that lacks copy, copyTo or store, or under a
\* name that is not a string, raises TypeError, and no other install does;
\* the rejected install leaves every binding table as it was, whatever the
\* number of tags it names, and logs no warning.
C14_RejectedInstall ==
    /\ [](last.op = "install" =>
             (last.result = "TypeError" <=> Unacceptable(last)))
    /\ [][(last'.op = "install" /\ Unacceptable(last')) =>
             /\ UNCHANGED registry
             /\ last'.warned = <<>>]_vars

\* A class without store() was installed on two tags, one of which holds
\* bindings, and was rejected.
C14_Witness ==
    /\ last.op = "install"
    /\ last.cls = "NoStore"
    /\ Len(last.installs_on) = 2
    /\ last.result = "TypeError"
    /\ Binding(_classes, "account", "dyn_vars") = "DynVarAux"
    /\ Binding(_classes, "account", "counter") = "Counter"
    /\ "object" \notin DOMAIN _classes

\* ------------------------------------------------------------------------
\* Properties of the owners
\* ------------------------------------------------------------------------

\* The attempts of the last initialization whose class raised, and those
\* whose class returned.
FailedAttempts == {i \in 1..Len(last.attempts) : last.attempts[i].raised # "none"}

\* The names the last initialization tried.
Attempted == {last.attempts[i].key : i \in 1..Len(last.attempts)}

\* C15: when the construction or initialization of an auxiliary class
\* raises during an owner's initialization, the call still returns
\* normally, the failure is logged, and every other class bound under the
\* owner's tag is tried, the ones that return being stored.
C15_FailureIsolated ==
    (last.op = "init" /\ FailedAttempts # {}) =>
        /\ last.result = "returned"
        /\ last.logged = Cardinality(FailedAttempts)
        /\ Attempted = DOMAIN _classes[last.my_type]
        /\ \A i \in 1..Len(last.attempts) :
              last.attempts[i].raised = "none"
              => Held(last.owner, last.attempts[i].key).cls = last.attempts[i].cls

\* The tag of an owner's class, "None" when the class is not registered.
TagOf(owner) ==
    IF OwnerClass[owner] \in DOMAIN _types THEN _types[OwnerClass[owner]] ELSE "None"

\* C16: aux(name) on an owner whose class is not registered raises
\* TypeError; on an owner whose class is registered, with a name that is not
\* bound under the owner's tag, it raises KeyError; neither call returns.
C16_MistakesSurface ==
    last.op = "aux" =>
        /\ TagOf(last.owner) = "None" => last.result = "TypeError"
        /\ (/\ TagOf(last.owner) # "None"
            /\ Binding(_classes, TagOf(last.owner), last.name) = "None")
           => last.result = "KeyError"
        /\ last.result \in {"TypeError", "KeyError"}
           => (\/ TagOf(last.owner) = "None"
               \/ Binding(_classes, TagOf(last.owner), last.name) = "None")

\* An initialized owner that holds an instance under one name was asked for
\* a name that is not installed under its tag.
C16_Witness ==
    /\ last.op = "aux"
    /\ last.owner = "account1"
    /\ last.name = "counter"
    /\ Held("account1", "dyn_vars") # None
    /\ Binding(_classes, "account", "counter") = "None"
    /\ last.result = "KeyError"

\* The state part of C17: aux returns None exactly when the name is bound
\* under the owner's tag and the owner holds no instance under it; and an
\* initialization that returned has tried every name bound under the
\* owner's tag, so that the names the owner then lacks are those whose
\* initializer raised.
C17_NoneWhenNotHeld ==
    /\ last.op = "aux" =>
          ((last.result = "returned" /\ last.value = None)
           <=> (/\ TagOf(last.owner) # "None"
                /\ Binding(_classes, TagOf(last.owner), last.name) # "None"
                /\ Held(last.owner, last.name) = None))
    /\ (last.op = "init" /\ last.result = "returned" /\ last.my_type \in DOMAIN _classes) =>
          /\ Attempted = DOMAIN _classes[last.my_type]
          /\ \A name \in Attempted :
                Held(last.owner, name) = None
                => \E i \in FailedAttempts : last.attempts[i].key = name

\* C17: aux returns None exactly for a name that is installed under the
\* owner's tag and not held by the owner (its initializer raised, or the
\* name was installed after the owner was initialized); an initializer that
\* raised leaves what the owner holds under its name as it was, so that no
\* instance of the failed initialization is stored.
C17_NoneAndNoPartialInstance ==
    /\ []C17_NoneWhenNotHeld
    /\ [][last'.op = "init" =>
             \A i \in FailedAttempts' :
                 HeldIn(_auxiliary', last'.owner, last'.attempts[i].key)
                     = HeldIn(_auxiliary, last'.owner, last'.attempts[i].key)]_vars

\* An owner whose initialization stored one instance was asked for the
\* other name installed under its tag, and got None.
C17_Witness ==
    /\ last.op = "aux"
    /\ last.owner = "account1"
    /\ last.name = "counter"
    /\ inits["account1"] = 1
    /\ Held("account1", "dyn_vars") # None
    /\ Binding(_classes, "account", "counter") = "Counter"
    /\ last.result = "returned"
    /\ last.value = None

\* The state part of C18: an initialization tries every name once; for a
\* name whose initializer returned the owner holds the instance this
\* initialization made, of the class bound under the owner's tag, with the
\* sub-tree of its own name as data, or no data when the tree has none; and
\* aux returns the instance the owner holds.
C18_HoldsItsInstance ==
    /\ last.op = "init" =>
          \A i \in 1..Len(last.attempts) :
              LET a == last.attempts[i] IN
              /\ Cardinality({j \in 1..Len(last.attempts) :
                                 last.attempts[j].key = a.key}) = 1
              /\ a.raised = "none" =>
                    Held(last.owner, a.key)
                        = [cls |-> Binding(_classes, last.my_type, a.key),
                           data |-> IF a.key \in DOMAIN last.data
                                    THEN last.data[a.key] ELSE "None",
                           round |-> inits[last.owner]]
    /\ (last.op = "aux" /\ Held(last.owner, last.name) # None) =>
          /\ last.result = "returned"
          /\ last.value = Held(last.owner, last.name)

\* C18: after an owner is initialized with a serialized tree, it holds for
\* every installed name whose initializer returned one instance, of the
\* bound class, initialized with the tree's entry for that name and with no
\* data when the tree has none; aux returns that instance and changes
\* nothing, so that every repetition returns it again.
C18_InitializedFromTree ==
    /\ []C18_HoldsItsInstance
    /\ [][last'.op = "aux" => UNCHANGED registry]_vars

\* An owner initialized with a tree that has an entry for "dyn_vars" only
\* holds a DynVarAux made from it and a Counter made without data, which aux
\* has just returned.
C18_Witness ==
    /\ last.op = "aux"
    /\ last.owner = "account1"
    /\ last.name = "counter"
    /\ last.value = [cls |-> "Counter", data |-> "None", round |-> 1]
    /\ Held("account1", "dyn_vars") = [cls |-> "DynVarAux", data |-> "vars", round |-> 1]

\* ------------------------------------------------------------------------
\* Properties of the storage engine
\* ------------------------------------------------------------------------

\* The order in which a set writes its keys: the recorded read order, or
\* the sorted keys when none is recorded.
WriteOrder(data) ==
    IF READ_ORDER_KEY \in DOMAIN data THEN data[READ_ORDER_KEY].l
    ELSE Sorted(DOMAIN data \ {LONGEST_KEY})

\* What a set shows to its callers: its keys in their order, each with the
\* value generic get returns for it, nested sets and lists shown likewise.
RECURSIVE Shown(_)
RECURSIVE ShownValue(_)

Shown(data) ==
    [i \in 1..Len(WriteOrder(data)) |->
        [key |-> WriteOrder(data)[i],
         value |-> ShownValue(getitem(data, WriteOrder(data)[i]))]]

ShownValue(value) ==
    CASE value.t = "StorageSet" -> [t |-> "StorageSet", entries |-> Shown(value.d)]
      [] value.t = "StorageList" ->
             [t |-> "StorageList", sets |-> [j \in 1..Len(value.l) |-> Shown(value.l[j])]]
      [] OTHER -> value

\* C19: writing a set built with generic sets of strings, integers,
\* booleans, nested sets and lists, and loading the file into a fresh set,
\* succeeds and gives a set with the same keys in the same order and, under
\* every key, the same value from generic get, at every level of nesting.
C19_RoundTrip ==
    last.op = "load" =>
        /\ last.exc = "none"
        /\ Shown(last.after) = Shown(last.before)

\* C20: a generic get, set or delete with the read-order key or the
\* longest-key key raises KeyError, on the root set and on a nested set,
\* loaded from a file or not, and leaves the data of every set and the
\* modified flags as they were.
C20_SentinelKeysRejected ==
    [][(last'.op \in {"set", "get", "del"} /\ IsSentinel(last'.key)) =>
          /\ last'.exc = "KeyError"
          /\ _data' = _data
          /\ modified' = modified
          /\ last'.flag = (IF last'.path = <<>> THEN modified ELSE FALSE)]_vars

\* A set with a sentinel key was tried on a nested set that came from a
\* file and holds both sentinel keys itself.
C20_Witness ==
    /\ last.op = "set"
    /\ IsSentinel(last.key)
    /\ last.path = <<KeyBB>>
    /\ last.exc = "KeyError"
    /\ Reaches(_data, <<KeyBB>>)
    /\ READ_ORDER_KEY \in DOMAIN DataAt(_data, <<KeyBB>>)
    /\ LONGEST_KEY \in DOMAIN DataAt(_data, <<KeyBB>>)

\* C21: the public calls neither show nor take the two sentinel entries:
\* keys() and iteration never yield them, contains and `in` do not report
\* them, and the typed readers and storers raise KeyError for them.
C21_SentinelsHidden ==
    /\ last.op = "keys" => \A i \in 1..Len(last.result) : ~IsSentinel(last.result[i])
    /\ (last.op = "contains" /\ IsSentinel(last.key)) => last.result = FALSE
    /\ (/\ last.op \in {"readString", "readInt", "readList", "storeString", "storeInt"}
        /\ IsSentinel(last.key))
       => last.exc = "KeyError"

\* A text that reads as yes, no or a number.
ReadsAsOther(s) ==
    \/ s \in {<<"y", "e", "s">>, <<"n", "o">>}
    \/ isdigit(WithoutDots(s))

\* C22: a boolean, an integer, or a string that is not yes/no and does not
\* look like a number, stored with generic set, comes back from generic get
\* as the same value of the same type.
C22_ScalarsReadBack ==
    (/\ last.op = "set" /\ last.exc = "none" /\ last.path = <<>>
     /\ \/ last.val.t \in {"bool", "int"}
        \/ last.val.t = "unicode" /\ ~ReadsAsOther(last.val.s))
    => getitem(_data, last.key) = last.val

\* The decoding of a stored text as the rule states it.
DecodedByRule(s) ==
    IF s = <<"y", "e", "s">> THEN Bool(TRUE)
    ELSE IF s = <<"n", "o">> THEN Bool(FALSE)
    ELSE IF isdigit(s) THEN Num(IntOf(s))
    ELSE IF isdigit(WithoutDots(s)) /\ Dots(s) <= 1 THEN Float(s)
    ELSE Unicode(s)

\* C23: generic get of a present key that holds a text never raises and
\* returns a boolean for yes/no, else an integer for digits only, else a
\* double for digits with at most one dot, else the text itself.
C23_DecodingRule ==
    (/\ last.op = "get" /\ last.path = <<>>
     /\ last.key \in DOMAIN _data
     /\ _data[last.key].t = "unicode")
    => /\ last.exc = "none"
       /\ last.value = DecodedByRule(_data[last.key].s)

\* ------------------------------------------------------------------------
\* Properties of the parents and the modified flags
\* ------------------------------------------------------------------------

\* The nodes one step up from the nodes, and every node above a node.
ParentsOf(parents, nodes) == {ParentIn(parents, n) : n \in nodes} \ {NoParent}

RECURSIVE UpFrom(_, _)
UpFrom(parents, nodes) ==
    IF ParentsOf(parents, nodes) \subseteq nodes THEN nodes
    ELSE UpFrom(parents, nodes \cup ParentsOf(parents, nodes))

Ancestors(parents, node) == UpFrom(parents, ParentsOf(parents, {node}))

\* Whether the node's modified flag is set: a wrapper lives for the call
\* only, or was marked by the call that made it a parent.
IsMarked(node) ==
    IF node.via = "own" THEN flags[node.of] ELSE node \in last.marked

HeldBy(c) ==
    IF c \in ListObjects THEN {inside[c][i] : i \in 1..Len(inside[c])}
    ELSE {inside[c][key].of : key \in DOMAIN inside[c]} \ {""}

RECURSIVE DownFrom(_)
DownFrom(held) ==
    IF UNION {HeldBy(c) : c \in held} \subseteq held THEN held
    ELSE DownFrom(held \cup UNION {HeldBy(c) : c \in held})

ContainsItself == \E c \in Objects : c \in DownFrom(HeldBy(c))

\* C25: add raises and leaves the list as it is whenever the set is an
\* ancestor of the list, at any distance, and no set or list ever comes to
\* lie inside itself.
C25_NoCycle ==
    /\ []~ContainsItself
    /\ [][(last'.op = "add" /\ Obj(last'.val) \in Ancestors(parent, last'.node))
            => (last'.exc = "ValueError" /\ inside' = inside)]_vars

\* C26: after list.add(s) the parent of s is that list, whatever it was
\* before.
C26_AddReparents ==
    [][(last'.op = "add" /\ last'.mutated) => parent'[last'.val] = last'.node]_vars

\* ------------------------------------------------------------------------
\* Properties of files
\* ------------------------------------------------------------------------

\* Whether a line of a file is an entry, and the key it is written with.
IsEntry(line) == \E i \in 1..Len(line) : line[i] = ":"

KeyOf(line) == strip(SubSeq(line, 1, Min({i \in 1..Len(line) : line[i] = ":"}) - 1))

\* The keys of the root set in a written file, in the order of their lines.
RECURSIVE RootKeys(_)
RootKeys(lines) ==
    IF lines = <<>> THEN <<>>
    ELSE (IF Indent(Head(lines)) = 0 /\ IsEntry(Head(lines))
          THEN <<KeyOf(Head(lines))>> ELSE <<>>) \o RootKeys(Tail(lines))

\* The keys read by the last load that were not deleted since.
Surviving == SelectSeq(file_keys.order, LAMBDA key : key \notin file_keys.deleted)

\* C27: a set loaded from a file and changed by sets and deletes is written
\* with the loaded keys that survive first, in the order they were read,
\* and the keys added since after them, every key once and no deleted key.
C27_ReadOrderKept ==
    [][(last'.op = "load" /\ file_keys.from_file) =>
          LET written == RootKeys(last'.lines)
              added == (DOMAIN _data \ {READ_ORDER_KEY, LONGEST_KEY})
                       \ {Surviving[i] : i \in 1..Len(Surviving)}
          IN /\ last'.exc = "none"
             /\ Len(written) = Len(Surviving) + Cardinality(added)
             /\ SubSeq(written, 1, Len(Surviving)) = Surviving
             /\ {written[i] : i \in (Len(Surviving) + 1)..Len(written)} = added
             /\ \A i, j \in 1..Len(written) : written[i] = written[j] => i = j]_vars

\* The width of the key column of an entry line.
KeyColumn(line) == Min({i \in 1..Len(line) : line[i] = ":"}) - 1 - Indent(line)

\* The length of the longest key a set has.
LongestKey(data) == Max({0} \cup {Len(key) : key \in DOMAIN data \ {READ_ORDER_KEY, LONGEST_KEY}})

\* C28: every set of a written file has its keys padded to the length of
\* the longest key that set has when it is written, also after the key
\* that was the longest when the set was loaded has been deleted.
C28_WidthRecomputed ==
    last.op = "load" =>
        \A path \in Paths : (Reaches(last.before, path) /\ (path # <<>> => Head(path) \in DOMAIN last.before)) =>
            \A i \in 1..Len(last.lines) :
                (IsEntry(last.lines[i]) /\ Indent(last.lines[i]) = INDENT_RATE * Len(path))
                => KeyColumn(last.lines[i]) = LongestKey(DataAt(last.before, path))

\* The keys and values of a set, without its two bookkeeping entries.
Entries(data) == [key \in DOMAIN data \ {READ_ORDER_KEY, LONGEST_KEY} |-> data[key]]

\* C29: when load raises, the set has the keys and values it had before
\* the call.
C29_LoadAllOrNothing ==
    (last.op = "loadfile" /\ last.exc # "none") => Entries(_data) = Entries(last.before)

\* C30: load raises a format error for a file with an unknown type marker,
\* with a line without key separator, without the terminator of a set or
\* with a line indented deeper than its set, and never returns with lines
\* of the file left unread.
C30_MalformedRejected ==
    last.op = "loadfile" =>
        /\ last.file \in Malformed => last.exc \in {"ValueError", "NotImplementedError"}
        /\ last.exc = "none" => last.pos > Len(last.file)

\* C31: a set that has just been loaded has modified = False, the flag
\* turns True only in a call that mutated the set, and a flag that is True
\* stays True until the set is loaded again; so the flag tells whether
\* the set was mutated since it was created or loaded.
C31_ModifiedSinceLoad ==
    [][/\ (last'.op \in {"load", "loadfile"} /\ last'.exc = "none") => ~modified'
       /\ (~modified /\ modified') => (last'.op \in {"set", "del"} /\ last'.exc = "none")
       /\ (modified /\ last'.op \notin {"load", "loadfile"}) => modified']_vars

\* C35: initializing an owner whose class is registered under a tag for
\* which no auxiliary class is installed returns without error and leaves
\* the owner without auxiliary instances.
C35_NothingInstalled ==
    (/\ last.op = "init"
     /\ last.my_type # "None"
     /\ (last.my_type \in DOMAIN _classes => _classes[last.my_type] = EmptyDict))
    => (last.result = "returned" /\ _auxiliary[last.owner] = EmptyDict)

\* The type marker of an entry line: the character after the separator.
MarkerIn(line) == line[Min({i \in 1..Len(line) : line[i] = ":"}) + 1]

\* The marker a value stored with a typed mutator is to be written with.
MarkerFor(op) ==
    CASE op = "storeList" -> LIST_MARKER
      [] op = "storeSet" -> SET_MARKER
      [] OTHER -> TYPELESS_MARKER

TypedStores == {"storeBool", "storeInt", "storeString", "storeList", "storeSet"}

\* C36: after a store with a typed mutator, generic get of the key returns
\* the value that was stored, with its type, and a write emits the key with
\* the marker of that type.
C36_TypedAgreesWithGet ==
    [][last.op \in TypedStores =>
         /\ (last'.op = "get" /\ last'.key = last.key) =>
                (last'.exc = "none" /\ last'.value = last.val)
         /\ last'.op = "load" =>
                \E i \in 1..Len(last'.lines) :
                    /\ IsEntry(last'.lines[i])
                    /\ Indent(last'.lines[i]) = 0
                    /\ KeyOf(last'.lines[i]) = last.key
                    /\ MarkerIn(last'.lines[i]) = MarkerFor(last.op)]_vars

Reads(vectors, names, sets, inst, key) == __getattr__(vectors[names[inst]], sets[inst], key)

\* The bits the vector of an instance declares.
BitsOf(inst) == Declared(bitvectors[_vecname[inst]])

AsRead(val) == IF val THEN "True" ELSE "False"

\* C33: every declared bit of a fresh Bitvector reads False; after a
\* declared bit is assigned a value it reads that value and every other bit
\* reads what it read before; after setall(True) every declared bit reads
\* True, after setall(False) every bit reads False; any() is True exactly
\* when some declared bit reads True.
C33_BitsReadWhatWasSet ==
    /\ [](/\ (last.op = "new" /\ last.exc = "none" /\ last.bits = NoBits) =>
                \A key \in BitsOf(last.inst) :
                    Reads(bitvectors, _vecname, _bits, last.inst, key) = "False"
          /\ last.op = "setall" =>
                \A key \in BitsOf(last.inst) :
                    Reads(bitvectors, _vecname, _bits, last.inst, key) = AsRead(last.val)
          /\ last.op = "any" =>
                (last.value <=> \E key \in BitsOf(last.inst) :
                    Reads(bitvectors, _vecname, _bits, last.inst, key) = "True"))
    /\ [][(last'.op = "setattr" /\ last'.exc = "none") =>
             \A key \in BitsOf(last'.inst) :
                 Reads(bitvectors', _vecname', _bits', last'.inst, key)
                     = IF key = last'.key THEN AsRead(last'.val)
                       ELSE Reads(bitvectors, _vecname, _bits, last'.inst, key)]_vars

RECURSIVE WithCleanup(_)
WithCleanup(ihs) ==
    IF ihs = <<>> THEN <<>>
    ELSE (IF Top(ihs).cleanup = "None" THEN <<>> ELSE <<Top(ihs)>>)
         \o WithCleanup(Below(ihs))

\* C32: pop_ih on a non-empty stack returns True, removes the top handler
\* and calls its cleanup function once, also when that function raises;
\* on an empty stack it returns False and changes nothing; so popping until
\* False, as close does, ends with an empty stack and every cleanup
\* function called once.
C32_PopUntilEmpty ==
    [][/\ last'.op = "pop_ih" =>
             IF _ihs = <<>>
             THEN last'.result = "False" /\ _ihs' = _ihs /\ last'.cleaned = <<>>
             ELSE /\ last'.result = "True"
                  /\ _ihs' = Below(_ihs)
                  /\ last'.cleaned = WithCleanup(<<Top(_ihs)>>)
       /\ last'.op = "close" =>
             /\ last'.result = "returned"
             /\ _ihs' = <<>>
             /\ last'.cleaned = WithCleanup(_ihs)]_vars

\* The calls that the handlers of a stack are to get for the data: the top
\* handler the data, each handler below what the one above returned, until
\* a handler returns nothing or raises or no handler is left.
RECURSIVE Chain(_, _)
Chain(handlers, data) ==
    IF handlers = <<>> THEN <<>>
    ELSE LET entry == Top(handlers)
             call == [handler |-> entry.handler, data |-> data]
         IN IF entry.handler.does \in {"Exception", "BaseException"}
               \/ Returned(entry.handler, data) = <<>>
            THEN <<call>>
            ELSE <<call>> \o Chain(Below(handlers), Returned(entry.handler, data))

\* C39: _on_read does not fail for want of a handler: the data goes down
\* the stack from the top until a handler returns nothing or raises or the
\* stack ends, then the prompt is busted; with a stack that is empty and
\* stays empty the connection is closed and no handler is called.
C39_ReadNeverExhausts ==
    [][last'.op = "on_read" =>
         /\ last'.result # "IndexError"
         /\ IF _ihs' = <<>>
            THEN /\ last'.calls = <<>>
                 /\ _connection = "open" => (last'.result = "closed" /\ _connection' = "None")
            ELSE /\ last'.calls = Chain(_ihs', last'.data)
                 /\ last'.result = "returned"
                 /\ last'.busted /\ _busted']_vars

\* The ids of the items in the strings written, in the order written.
RECURSIVE Flatten(_)
Flatten(strings) ==
    IF strings = <<>> THEN <<>> ELSE Head(strings) \o Flatten(Tail(strings))

\* The ids of the items waiting in the output buffer.
Waiting == [i \in 1..Len(_out_buffer) |-> _out_buffer[i].id]

\* C38: on a connected socket every item queued by send, send_raw or
\* send_data is written once and in the order of queueing: what has been
\* written followed by what waits in the buffer is the items queued, in
\* their order, and while an item waits a _perform_write callback is
\* pending with the engine.
C38_WrittenOnceInOrder ==
    /\ Flatten(writes) \o Waiting = [i \in 1..sent |-> i]
    /\ _out_buffer # <<>> => callbacks > 0 /\ _scheduled_for_write

\* Two texts and a byte string queued after them have been written, the
\* texts joined into one string ahead of the byte string.
C38_Witness ==
    /\ last.op = "_perform_write" /\ last.result = "written"
    /\ \E i \in 1..Len(writes) - 1 : Len(writes[i]) >= 2
    /\ _out_buffer = <<>>
    /\ sent = MaxSent

====
